---- MODULE Spec2Model ----
(***************************************************************************)
(* Price-mapping upsert and bulk import of the price tracker               *)
(* (server/index.js): POST /api/price-mappings, DELETE                     *)
(* /api/price-mappings/:id and POST /api/upload-excel over the             *)
(* PriceMapping collection, together with the unit-value parser they use,  *)
(* the read paths that format stored mappings, the SKU create and update   *)
(* handlers with the schema's VAT hooks, the listings and the guarded      *)
(* deletion of the four category levels, the deletes of SKUs, vendors and  *)
(* price-locations, and the migration script of the Location collection.   *)
(***************************************************************************)
EXTENDS Integers, Sequences, FiniteSets, TLC

VARIABLES
    skus,             \* SKU collection: _id -> document (see SkuDoc)
    vendors,          \* Vendor collection: set of _id
    simpleLocations,  \* SimpleLocation (price-location) collection: set of _id
    locations,        \* Location collection (the full, older model): _id -> document
    categories,       \* the four category collections: _id -> [level, parent]
    nextCat,          \* the next fresh category _id
    pm,               \* PriceMapping collection: _id -> document
    nextId,           \* the next fresh PriceMapping _id
    resp,             \* the response of the last single-record request
    upload,           \* POST /api/upload-excel: the handler's locals and its response
    tmpFile,          \* the uploaded spreadsheet on disk: "none", "stored", "deleted"
    inflight,         \* requests suspended at the await between findOne and save
    deleting          \* a category delete suspended between its counts and its delete

catalogVars == <<vendors, simpleLocations, locations>>
skuVars == <<skus, categories, nextCat, deleting>>
vars == <<skus, categories, nextCat, vendors, simpleLocations, locations, pm, nextId, resp, upload, tmpFile, inflight, deleting>>

----------------------------------------------------------------------------
(* Bounds of the model.                                                    *)

MaxDocs == 2        \* PriceMapping documents ever inserted
MaxRows == 2        \* rows of an uploaded sheet
MaxLongRows == 11   \* rows of an uploaded sheet in SpecLong
MaxNodes == 4       \* category documents ever created
MaxLen == 3         \* characters of an enumerated unit_value in SpecUnit
MaxLocations == 2     \* Location documents in a migrated collection

----------------------------------------------------------------------------
(* JavaScript values.  A value is [k, n, d, s]: its kind, a rational n/d   *)
(* for a number, and the characters of a string.                           *)

JsVal(k, n, d, s) == [k |-> k, n |-> n, d |-> d, s |-> s]
Undefined == JsVal("undefined", 0, 1, "")
Null      == JsVal("null", 0, 1, "")
NaN       == JsVal("NaN", 0, 1, "")
PosInf    == JsVal("Infinity", 1, 1, "")
NegInf    == JsVal("Infinity", -1, 1, "")
Num(n)    == JsVal("number", n, 1, "")
Str(s)    == JsVal("string", 0, 1, s)
Bool(b)   == JsVal("boolean", IF b THEN 1 ELSE 0, 1, "")

RECURSIVE Gcd(_, _)
Gcd(a, b) == IF b = 0 THEN a ELSE Gcd(b, a % b)

Abs(x) == IF x < 0 THEN -x ELSE x

\* the number n/d (d # 0) in lowest terms with a positive denominator
Ratio(n, d) ==
    LET g == Gcd(Abs(n), Abs(d))
        sg == IF d < 0 THEN -1 ELSE 1
    IN  JsVal("number", sg * (n \div g), sg * (d \div g), "")

\* JavaScript truthiness: undefined, null, NaN, 0, "" and false are falsy
Truthy(v) ==
    CASE v.k = "number"   -> v.n # 0
      [] v.k = "Infinity" -> TRUE
      [] v.k = "string"   -> v.s # ""
      [] v.k = "boolean"  -> v.n = 1
      [] OTHER            -> FALSE

\* a || b
OrElse(a, b) == IF Truthy(a) THEN a ELSE b

\* the only numeral among the strings of the model is "0"; the others parse
\* to NaN
parseFloat(v) ==
    IF v.k \in {"number", "Infinity"} THEN v
    ELSE IF v.k = "string" /\ v.s = "0" THEN Num(0)
    ELSE NaN

\* a >= b on numbers; false when either side is NaN
GreaterEq(a, b) ==
    /\ a.k = "number"
    /\ b.k = "number"
    /\ a.n * b.d >= b.n * a.d

\* a / b, both operands converted to numbers first
Divide(a, b) ==
    IF a.k # "number" \/ b.k # "number" THEN NaN
    ELSE IF b.n = 0
         THEN (IF a.n = 0 THEN NaN ELSE IF a.n > 0 THEN PosInf ELSE NegInf)
         ELSE Ratio(a.n * b.d, a.d * b.n)

----------------------------------------------------------------------------
(* The unit-value parser.  A unit_value is a sequence of characters.       *)

Digits == {"0", "1", "2", "3", "4", "5", "6", "7", "8", "9"}

DigitVal(c) ==
    CASE c = "0" -> 0 [] c = "1" -> 1 [] c = "2" -> 2 [] c = "3" -> 3
      [] c = "4" -> 4 [] c = "5" -> 5 [] c = "6" -> 6 [] c = "7" -> 7
      [] c = "8" -> 8 [] c = "9" -> 9

IsDigitAt(str, i) == i >= 1 /\ i <= Len(str) /\ str[i] \in Digits

\* the last index of the maximal run of digits that starts at i
RECURSIVE RunEnd(_, _)
RunEnd(str, i) == IF IsDigitAt(str, i + 1) THEN RunEnd(str, i + 1) ELSE i

\* the decimal value of the digits str[i..j]
RECURSIVE DigitsValue(_, _, _)
DigitsValue(str, i, j) ==
    IF j < i THEN 0 ELSE 10 * DigitsValue(str, i, j - 1) + DigitVal(str[j])

RECURSIVE Pow10(_)
Pow10(k) == IF k = 0 THEN 1 ELSE 10 * Pow10(k - 1)

\* a match that starts at the last digit of the string instead of the first
RegexMatchLast(str) ==
    LET starts == {i \in 1..Len(str) : str[i] \in Digits}
    IN  IF starts = {} THEN [found |-> FALSE, from |-> 0, mid |-> 0, to |-> 0]
        ELSE LET i == CHOOSE x \in starts : \A y \in starts : x >= y
             IN  [found |-> TRUE, from |-> i, mid |-> i, to |-> i]

\* the match of /(\d+(?:\.\d+)?)/ : [found, from, to] of the leftmost match
RegexMatch(str) ==
    LET starts == {i \in 1..Len(str) : str[i] \in Digits}
    IN  IF starts = {} THEN [found |-> FALSE, from |-> 0, mid |-> 0, to |-> 0]
        ELSE LET i == CHOOSE x \in starts : \A y \in starts : x <= y
                 j == RunEnd(str, i)
                 frac == j + 1 <= Len(str) /\ str[j + 1] = "." /\ IsDigitAt(str, j + 2)
             IN  [found |-> TRUE, from |-> i, mid |-> j,
                  to |-> IF frac THEN RunEnd(str, j + 2) ELSE j]

extractUnitValue(unitValueString) ==
    LET m == RegexMatch(unitValueString)
    IN  IF ~m.found THEN Num(1)
        ELSE IF m.to = m.mid
             THEN Num(DigitsValue(unitValueString, m.from, m.mid))
             ELSE LET scale == Pow10(m.to - (m.mid + 1))
                  IN  Ratio(DigitsValue(unitValueString, m.from, m.mid) * scale
                              + DigitsValue(unitValueString, m.mid + 2, m.to),
                            scale)

----------------------------------------------------------------------------
(* Documents and the mongoose operations the handlers call.                *)

MalformedId == "not-an-objectid"    \* a string that does not cast to ObjectId
CastsToObjectId(id) == id # MalformedId

ValueFields == {"price", "struck_price", "is_discounted", "unit_price", "currency"}

NoDoc ==
    [sku_id |-> "", vendor_id |-> "", location_id |-> "", price |-> Undefined,
     struck_price |-> Undefined, is_discounted |-> Undefined,
     unit_price |-> Undefined, currency |-> Undefined]

\* Model.findById(id): "threw" (CastError), "null" or "doc"
FindById(ids, id) ==
    IF ~CastsToObjectId(id) THEN "threw"
    ELSE IF id \in ids THEN "doc" ELSE "null"

\* PriceMapping.findOne({sku_id, vendor_id, location_id}): -1 when the filter
\* does not cast, 0 when nothing matches, else the _id of the first match
FindOne(coll, sku_id, vendor_id, location_id) ==
    IF ~(CastsToObjectId(sku_id) /\ CastsToObjectId(vendor_id)
           /\ CastsToObjectId(location_id))
    THEN -1
    ELSE LET hits == {i \in DOMAIN coll :
                         /\ coll[i].sku_id = sku_id
                         /\ coll[i].vendor_id = vendor_id
                         /\ coll[i].location_id = location_id}
         IN  IF hits = {} THEN 0
             ELSE CHOOSE i \in hits : \A j \in hits : i <= j

\* a Number path: NaN and non-numeric strings do not cast; null and undefined
\* pass the cast and fail only `required`
CastsToNumber(v, required) ==
    CASE v.k \in {"number", "Infinity"} -> TRUE
      [] v.k \in {"null", "undefined"}  -> ~required
      [] OTHER                          -> FALSE

\* document validation run by save() against priceMappingSchema
PassesValidation(doc) ==
    /\ doc.sku_id # "" /\ CastsToObjectId(doc.sku_id)
    /\ doc.vendor_id # "" /\ CastsToObjectId(doc.vendor_id)
    /\ doc.location_id # "" /\ CastsToObjectId(doc.location_id)
    /\ CastsToNumber(doc.price, TRUE)
    /\ CastsToNumber(doc.struck_price, FALSE)
    /\ CastsToNumber(doc.unit_price, TRUE)

\* the five value fields an upsert writes, from the request alone
NewValues(body, unitPrice) ==
    [price         |-> body.price,
     struck_price  |-> OrElse(body.struck_price, Null),
     is_discounted |-> OrElse(body.is_discounted, Bool(FALSE)),
     unit_price    |-> unitPrice,
     currency      |-> OrElse(body.currency, Str("TRY"))]

WithValues(doc, vals) ==
    [f \in DOMAIN doc |-> IF f \in ValueFields THEN vals[f] ELSE doc[f]]

\* error.message of the exceptions mongoose raises
CastFailed       == "Cast to ObjectId failed"
ValidationFailed == "PriceMapping validation failed"
DocumentNotFound == "No document found for query"

\* SaveNew as an insert that is skipped when the triple already has a record
SaveNewIfAbsent(coll, nid, doc) ==
    LET hits == {i \in DOMAIN coll : coll[i].sku_id = doc.sku_id
                                      /\ coll[i].vendor_id = doc.vendor_id
                                      /\ coll[i].location_id = doc.location_id}
    IN  IF hits # {}
        THEN [threw |-> FALSE, error |-> "", pm |-> coll, id |-> CHOOSE i \in hits : TRUE]
        ELSE [threw |-> FALSE, error |-> "",
              pm |-> [i \in DOMAIN coll \cup {nid} |-> IF i = nid THEN doc ELSE coll[i]],
              id |-> nid]

\* new PriceMapping({...}).save()
SaveNew(coll, nid, doc) ==
    IF ~PassesValidation(doc)
    THEN [threw |-> TRUE, error |-> ValidationFailed, pm |-> coll, id |-> 0]
    ELSE [threw |-> FALSE, error |-> "",
          pm |-> [i \in DOMAIN coll \cup {nid} |-> IF i = nid THEN doc ELSE coll[i]],
          id |-> nid]

\* SaveExisting with the write lost: nothing reaches the stored document
SaveExistingLost(coll, id, loaded, vals) ==
    [threw |-> FALSE, error |-> "", pm |-> coll, id |-> id]

\* existingMapping.save(): validates the document in memory, then writes the
\* paths that differ from the document as loaded onto the stored document
SaveExisting(coll, id, loaded, vals) ==
    LET modified == {f \in ValueFields : vals[f] # loaded[f]}
    IN  IF ~PassesValidation(WithValues(loaded, vals))
        THEN [threw |-> TRUE, error |-> ValidationFailed, pm |-> coll, id |-> 0]
        ELSE IF modified = {}
        THEN [threw |-> FALSE, error |-> "", pm |-> coll, id |-> id]
        ELSE IF id \notin DOMAIN coll
        THEN [threw |-> TRUE, error |-> DocumentNotFound, pm |-> coll, id |-> 0]
        ELSE [threw |-> FALSE, error |-> "",
              pm |-> [coll EXCEPT ![id] =
                         [f \in DOMAIN @ |-> IF f \in modified THEN vals[f] ELSE @[f]]],
              id |-> id]

\* WriteMapping that inserts whatever the lookup found
WriteMappingAlwaysInsert(coll, nid, body, lk) ==
    SaveNew(coll, nid,
            WithValues([NoDoc EXCEPT !.sku_id = body.sku_id,
                                     !.vendor_id = body.vendor_id,
                                     !.location_id = body.location_id],
                       NewValues(body, lk.unitPrice)))

\* the check-then-write both handlers share: update the mapping found by the
\* lookup, or insert a new one
WriteMapping(coll, nid, body, lk) ==
    IF lk.existing # 0
    THEN SaveExisting(coll, lk.existing, lk.loaded, NewValues(body, lk.unitPrice))
    ELSE SaveNew(coll, nid,
                 WithValues([NoDoc EXCEPT !.sku_id = body.sku_id,
                                          !.vendor_id = body.vendor_id,
                                          !.location_id = body.location_id],
                            NewValues(body, lk.unitPrice)))

Lookup(outcome, unitPrice, existing, loaded) ==
    [outcome |-> outcome, unitPrice |-> unitPrice, existing |-> existing,
     loaded |-> loaded]

\* a struck-price check that lets every struck price through
StruckPriceIgnored(struck_price, price) == FALSE

\* struck_price && parseFloat(struck_price) >= parseFloat(price)
StruckPriceTooHigh(struck_price, price) ==
    Truthy(struck_price) /\ GreaterEq(parseFloat(struck_price), parseFloat(price))

----------------------------------------------------------------------------
(* SKU and category documents, and the SKU schema's hooks.                 *)

NoCategory == 0    \* a category reference that is null or not set

\* a SKU document: the fields of skuSchema the handlers of the model use
SkuDoc(unit_value, category_level4_id, buying_price, buying_vat, buying_price_without_vat, selling_price) ==
    [unit_value |-> unit_value, category_level4_id |-> category_level4_id,
     buying_price |-> buying_price, buying_vat |-> buying_vat,
     buying_price_without_vat |-> buying_price_without_vat,
     selling_price |-> selling_price]

\* a SKU stored with the schema's defaults and a selling price
SeedSku(unit_value) ==
    SkuDoc(unit_value, NoCategory, Num(0), Num(0), Num(0), Num(5))

\* a document of one of the four category collections; parent is the
\* category_id, category_level2_id or category_level3_id of levels 2 to 4
CategoryNode(level, parent) == [level |-> level, parent |-> parent]

\* Number(String(x).replace(',', '.')) on the values of the model
Number(v) ==
    IF v.k \in {"number", "Infinity"} THEN v
    ELSE IF v.k = "string" /\ v.s \in {"", "0"} THEN Num(0)
    ELSE NaN

\* Decimal128.fromString(x.toFixed(2)): x rounded to two decimals
toFixed(v) ==
    IF v.k # "number" THEN v
    ELSE Ratio((200 * v.n + v.d) \div (2 * v.d), 100)

\* `x && x !== ''` on a field of the request body
Given(v) == Truthy(v) /\ v # Str("")

\* x ? parseFloat(x.toString()) : 0 on a Decimal128, which is an object and
\* so truthy whatever its value
DecimalOrZero(v) == IF v \in {Undefined, Null} THEN Num(0) ELSE parseFloat(v)

\* x ? parseFloat(x) : 0 on a number
NumberOrZero(v) == IF Truthy(v) THEN parseFloat(v) ELSE Num(0)

\* vat > 0
Positive(v) == (v.k = "number" /\ v.n > 0) \/ v = PosInf

\* price / (1 + (vat / 100))
NetOfVat(price, vat) ==
    IF price.k # "number" \/ vat.k # "number" THEN NaN
    ELSE Divide(price, Ratio(100 * vat.d + vat.n, 100 * vat.d))

\* the branches both hooks share: the value of priceWithoutVat
priceWithoutVat(price, vat) ==
    IF Truthy(price) /\ Positive(vat) THEN NetOfVat(price, vat)
    ELSE IF Truthy(price) THEN price
    ELSE Num(0)

\* skuSchema.pre('save'): computed from the document being saved
preSave(doc) ==
    [doc EXCEPT !.buying_price_without_vat =
        toFixed(priceWithoutVat(DecimalOrZero(doc.buying_price),
                                NumberOrZero(doc.buying_vat)))]

\* skuSchema.pre('findOneAndUpdate'): computed from the update object alone,
\* and only when the update names buying_price or buying_vat
preFindOneAndUpdate(update) ==
    IF update.buying_price # Undefined \/ update.buying_vat # Undefined
    THEN [update EXCEPT !.buying_price_without_vat =
            toFixed(priceWithoutVat(DecimalOrZero(update.buying_price),
                                    NumberOrZero(update.buying_vat)))]
    ELSE update

\* the fields of a SKU that an update object sets: those it defines
ApplyUpdate(doc, update) ==
    [f \in DOMAIN doc |->
        IF f = "unit_value" \/ f = "category_level4_id" THEN update[f]
        ELSE IF update[f] # Undefined THEN update[f] ELSE doc[f]]

----------------------------------------------------------------------------
(* POST /api/price-mappings                                                *)

SkuNotFound  == "SKU not found"
StruckError  == "Struck price must be lower than the regular price"
UpdatedMsg   == "Price mapping updated successfully"
CreatedMsg   == "Price mapping created successfully"
DeletedMsg   == "Price mapping deleted successfully"

\* a response: the status, the message or error text, the id (single-record
\* requests) and the report fields (bulk import)
Response(status, text, id) ==
    [status |-> status, text |-> text, id |-> id,
     successCount |-> 0, errorCount |-> 0, errors |-> <<>>, items |-> <<>>,
     count |-> 0]
NoResponse == Response(0, "", 0)    \* the request has not been answered yet

\* the handler up to and including the findOne lookup
UpsertLookup(body, skuColl, coll) ==
    LET sku == FindById(DOMAIN skuColl, body.sku_id)
    IN  IF sku = "threw" THEN Lookup("threw", Undefined, 0, NoDoc)
        ELSE IF sku = "null" THEN Lookup("sku_not_found", Undefined, 0, NoDoc)
        ELSE IF StruckPriceTooHigh(body.struck_price, body.price)
        THEN Lookup("struck", Undefined, 0, NoDoc)
        ELSE LET unitValue == extractUnitValue(skuColl[body.sku_id].unit_value)
                 unitPrice == Divide(body.price, unitValue)
                 existingMapping ==
                     FindOne(coll, body.sku_id, body.vendor_id, body.location_id)
             IN  IF existingMapping = -1 THEN Lookup("threw", Undefined, 0, NoDoc)
                 ELSE Lookup("proceed", unitPrice, existingMapping,
                             IF existingMapping = 0 THEN NoDoc
                             ELSE coll[existingMapping])

\* the rest of the handler: the early returns, the save and the response
UpsertRespond(coll, nid, body, lk) ==
    CASE lk.outcome = "sku_not_found" ->
           [pm |-> coll, nextId |-> nid, resp |-> Response(400, SkuNotFound, 0)]
      [] lk.outcome = "struck" ->
           [pm |-> coll, nextId |-> nid, resp |-> Response(400, StruckError, 0)]
      [] lk.outcome = "threw" ->
           [pm |-> coll, nextId |-> nid, resp |-> Response(500, CastFailed, 0)]
      [] lk.outcome = "proceed" ->
           LET w == WriteMapping(coll, nid, body, lk)
           IN  IF w.threw
               THEN [pm |-> coll, nextId |-> nid, resp |-> Response(500, w.error, 0)]
               ELSE IF lk.existing # 0
               THEN [pm |-> w.pm, nextId |-> nid,
                     resp |-> Response(200, UpdatedMsg, w.id)]
               ELSE [pm |-> w.pm, nextId |-> nid + 1,
                     resp |-> Response(200, CreatedMsg, w.id)]

----------------------------------------------------------------------------
(* POST /api/upload-excel                                                  *)

ErrorLimit == 10    \* errors.slice(0, 10)
RowOffset  == 2     \* `Row ${index + 2}`

MissingFields  == "Missing required fields (sku_id, vendor_id, location_id, price)"
SkuIdNotFound  == "SKU with ID not found"
VendorNotFound == "Vendor with ID not found"
LocationNotFound == "Location with ID not found"
ProcessedMsg   == "Excel upload processed"
NoFileMsg      == "No file uploaded"
ProcessingError == "Error processing Excel file"

RowError(index, text, id) == [row |-> index + RowOffset, text |-> text, id |-> id]

\* RowLookup without the check that the vendor is on record
RowLookupAnyVendor(row, skuColl, vendorColl, locationColl, coll) ==
    IF row.sku_id = "" \/ row.vendor_id = "" \/ row.location_id = ""
         \/ ~Truthy(row.price)
    THEN Lookup("missing", Undefined, 0, NoDoc)
    ELSE IF StruckPriceTooHigh(row.struck_price, row.price)
    THEN Lookup("struck", Undefined, 0, NoDoc)
    ELSE LET sku == FindById(DOMAIN skuColl, row.sku_id)
             vendor == FindById(vendorColl, row.vendor_id)
             location == FindById(locationColl, row.location_id)
         IN  IF sku = "threw" THEN Lookup("threw", Undefined, 0, NoDoc)
             ELSE IF sku = "null" THEN Lookup("sku_not_found", Undefined, 0, NoDoc)
             ELSE IF vendor = "threw" THEN Lookup("threw", Undefined, 0, NoDoc)
             ELSE IF location = "threw" THEN Lookup("threw", Undefined, 0, NoDoc)
             ELSE IF location = "null"
             THEN Lookup("location_not_found", Undefined, 0, NoDoc)
             ELSE LET unitValue == extractUnitValue(skuColl[row.sku_id].unit_value)
                      unitPrice == Divide(row.price, unitValue)
                      existingMapping ==
                          FindOne(coll, row.sku_id, row.vendor_id, row.location_id)
                  IN  Lookup("proceed", unitPrice, existingMapping,
                             IF existingMapping = 0 THEN NoDoc
                             ELSE coll[existingMapping])

\* one iteration of the row loop up to and including the findOne lookup
RowLookup(row, skuColl, vendorColl, locationColl, coll) ==
    IF row.sku_id = "" \/ row.vendor_id = "" \/ row.location_id = ""
         \/ ~Truthy(row.price)
    THEN Lookup("missing", Undefined, 0, NoDoc)
    ELSE IF StruckPriceTooHigh(row.struck_price, row.price)
    THEN Lookup("struck", Undefined, 0, NoDoc)
    ELSE LET sku == FindById(DOMAIN skuColl, row.sku_id)
             vendor == FindById(vendorColl, row.vendor_id)
             location == FindById(locationColl, row.location_id)
         IN  IF sku = "threw" THEN Lookup("threw", Undefined, 0, NoDoc)
             ELSE IF sku = "null" THEN Lookup("sku_not_found", Undefined, 0, NoDoc)
             ELSE IF vendor = "threw" THEN Lookup("threw", Undefined, 0, NoDoc)
             ELSE IF vendor = "null" THEN Lookup("vendor_not_found", Undefined, 0, NoDoc)
             ELSE IF location = "threw" THEN Lookup("threw", Undefined, 0, NoDoc)
             ELSE IF location = "null"
             THEN Lookup("location_not_found", Undefined, 0, NoDoc)
             ELSE LET unitValue == extractUnitValue(skuColl[row.sku_id].unit_value)
                      unitPrice == Divide(row.price, unitValue)
                      existingMapping ==
                          FindOne(coll, row.sku_id, row.vendor_id, row.location_id)
                  IN  Lookup("proceed", unitPrice, existingMapping,
                             IF existingMapping = 0 THEN NoDoc
                             ELSE coll[existingMapping])

\* RowFailed as a failure that ends the loop: no later row is processed
RowFailedAbort(up, err) ==
    [up EXCEPT !.errors = Append(@, err),
               !.errorCount = @ + 1,
               !.index = up.n]

\* the handler's locals after a row that failed with the given error
RowFailed(up, err) ==
    [up EXCEPT !.errors = Append(@, err),
               !.errorCount = @ + 1,
               !.index = @ + 1]

\* the rest of the iteration: record the error, or save and count the success
RowRespond(up, coll, nid, row, lk) ==
    CASE lk.outcome = "missing" ->
           [pm |-> coll, nextId |-> nid,
            upload |-> RowFailed(up, RowError(up.index, MissingFields, ""))]
      [] lk.outcome = "struck" ->
           [pm |-> coll, nextId |-> nid,
            upload |-> RowFailed(up, RowError(up.index, StruckError, ""))]
      [] lk.outcome = "sku_not_found" ->
           [pm |-> coll, nextId |-> nid,
            upload |-> RowFailed(up, RowError(up.index, SkuIdNotFound, row.sku_id))]
      [] lk.outcome = "vendor_not_found" ->
           [pm |-> coll, nextId |-> nid,
            upload |-> RowFailed(up, RowError(up.index, VendorNotFound, row.vendor_id))]
      [] lk.outcome = "location_not_found" ->
           [pm |-> coll, nextId |-> nid,
            upload |-> RowFailed(up, RowError(up.index, LocationNotFound,
                                              row.location_id))]
      [] lk.outcome = "threw" ->
           [pm |-> coll, nextId |-> nid,
            upload |-> RowFailed(up, RowError(up.index, CastFailed, ""))]
      [] lk.outcome = "proceed" ->
           LET w == WriteMapping(coll, nid, row, lk)
           IN  IF w.threw
               THEN [pm |-> coll, nextId |-> nid,
                     upload |-> RowFailed(up, RowError(up.index, w.error, ""))]
               ELSE [pm |-> w.pm,
                     nextId |-> IF lk.existing # 0 THEN nid ELSE nid + 1,
                     upload |-> [up EXCEPT !.successCount = @ + 1, !.index = @ + 1]]

\* Slice as the last `limit` entries instead of the first
SliceLast(errors, limit) ==
    SubSeq(errors, IF Len(errors) < limit THEN 1 ELSE Len(errors) - limit + 1, Len(errors))

\* errors.slice(0, limit): the first `limit` entries
Slice(errors, limit) == SubSeq(errors, 1, IF Len(errors) < limit THEN Len(errors) ELSE limit)

Report(successCount, errorCount, errors) ==
    [status |-> 200, text |-> ProcessedMsg, id |-> 0,
     successCount |-> successCount, errorCount |-> errorCount, errors |-> errors,
     items |-> <<>>, count |-> 0]

\* the handler's locals: the client served, data.length, index and the counters
UploadLocals(client, pc, n) ==
    [client |-> client, pc |-> pc, n |-> n, index |-> 0, successCount |-> 0,
     errorCount |-> 0, errors |-> <<>>]
NoUpload == UploadLocals("", "idle", 0)

----------------------------------------------------------------------------
(* The requests of the model.                                              *)

Clients == {"c1", "c2", "c3"}

Request(sku_id, vendor_id, location_id, price, struck_price, is_discounted, currency) ==
    [sku_id |-> sku_id, vendor_id |-> vendor_id, location_id |-> location_id,
     price |-> price, struck_price |-> struck_price,
     is_discounted |-> is_discounted, currency |-> currency]

NoRequest == Request("", "", "", Undefined, Undefined, Undefined, Undefined)

StruckVals == {Undefined, Num(0), Num(1), Num(2)}
Options == {<<Undefined, Undefined>>, <<Bool(TRUE), Str("USD")>>}

\* request bodies of POST /api/price-mappings for the one vendor on record,
\* without the optional is_discounted and currency
Bodies ==
    {Request(s, "v1", "l1", p, sp, Undefined, Undefined) :
        s \in {"s1", "s2", "s9", MalformedId},
        p \in {Num(0), Num(2)}, sp \in StruckVals}

\* the same bodies for either vendor, with and without the optional fields
OptionBodies ==
    {[b EXCEPT !.vendor_id = v, !.is_discounted = o[1], !.currency = o[2]] :
        b \in Bodies, v \in {"v1", "v9"}, o \in Options}

\* rows of an uploaded sheet; an empty cell is a missing (undefined) field
Rows ==
    {Request(s, v, l, p, sp, Undefined, Undefined) :
        s \in {"", "s1", "s2", "s9", MalformedId}, v \in {"", "v1", "v9"},
        l \in {"", "l1", "l9"},
        p \in {Undefined, Num(-1), Num(0), Num(2), Str("abc")},
        sp \in StruckVals}

\* the requests and rows of Spec, where all three operations mix
CoreBodies ==
    {Request(s, v, "l1", p, Undefined, Undefined, Undefined) :
        s \in {"s1", "s2", "s9"}, v \in {"v1", "v9"}, p \in {Num(0), Num(2)}}
CoreRows ==
    {Request(s, "v1", l, p, Undefined, Undefined, Undefined) :
        s \in {"s1", "s2"}, l \in {"l1", "l9"}, p \in {Num(-1), Num(2)}}

\* requests of SpecRead: a price-location on record, a location held only by
\* the full Location collection, and a location held by neither
ReadBodies ==
    {Request("s1", v, l, Num(2), Undefined, Undefined, Undefined) :
        v \in {"v1", "v9"}, l \in {"l1", "l5", "l9"}}

\* the rows of the long sheets of SpecLong: one that succeeds, one that fails
LongRows ==
    {Request("s1", "v1", "l1", Num(2), Undefined, Undefined, Undefined),
     Request("s9", "v1", "l1", Num(2), Undefined, Undefined, Undefined)}

\* the requests that race in SpecRace
RaceBodies ==
    {Request("s1", "v1", "l1", p, Undefined, Undefined, Undefined) :
        p \in {Num(1), Num(2)}}
RaceRows ==
    {Request("s1", "v1", l, Num(2), Undefined, Undefined, Undefined) :
        l \in {"l1", "l9"}}

----------------------------------------------------------------------------
(* State.                                                                  *)

Idle == [active |-> FALSE, body |-> NoRequest,
         lk |-> Lookup("", Undefined, 0, NoDoc)]

\* the values the migration writes to `domains`
GetirOnly == <<"Getir">>
GetirBoth == <<"Getir", "Getir Büyük">>

\* a Location document; has_domains is FALSE when the field is missing
LocationDoc(demography, size, has_domains, domains) ==
    [demography |-> demography, size |-> size, has_domains |-> has_domains,
     domains |-> domains]

\* no category delete is suspended
NoDelete == [client |-> "", level |-> 0, id |-> 0]

Init ==
    /\ skus = ("s1" :> SeedSku(<<"1", ".", "5", " ", "L">>))
              @@ ("s2" :> SeedSku(<<"0", " ", "g">>))
    /\ categories = [i \in {} |-> CategoryNode(1, 0)]
    /\ nextCat = 1
    /\ vendors = {"v1"}
    /\ simpleLocations = {"l1"}
    /\ locations = ("l5" :> LocationDoc("Premium", <<"M", "i", "n", "i">>, TRUE, GetirOnly))
    /\ pm = [i \in {} |-> NoDoc]
    /\ nextId = 1
    /\ resp = [c \in Clients |-> NoResponse]
    /\ upload = NoUpload
    /\ tmpFile = "none"
    /\ inflight = [c \in Clients |-> Idle]
    /\ deleting = NoDelete

\* no request is in progress
Quiet == upload.pc = "idle" /\ \A c \in Clients : ~inflight[c].active

----------------------------------------------------------------------------
(* Requests run one at a time.                                             *)

\* POST /api/price-mappings, the whole handler
Upsert(c, body) ==
    /\ Quiet
    /\ LET lk == UpsertLookup(body, skus, pm)
           r == UpsertRespond(pm, nextId, body, lk)
       IN  /\ r.nextId <= MaxDocs + 1
           /\ pm' = r.pm
           /\ nextId' = r.nextId
           /\ resp' = [resp EXCEPT ![c] = r.resp]
    /\ UNCHANGED <<catalogVars, skuVars, upload, tmpFile, inflight>>

\* FindByIdAndDelete as a delete of the oldest document, whatever the id
FindByIdAndDeleteOldest(coll, id) ==
    [i \in {j \in DOMAIN coll : \E k \in DOMAIN coll : k < j} |-> coll[i]]

\* PriceMapping.findByIdAndDelete(id)
FindByIdAndDelete(coll, id) == [i \in DOMAIN coll \ {id} |-> coll[i]]

\* DELETE /api/price-mappings/:id
DeletePriceMapping(c, id) ==
    /\ Quiet
    /\ pm' = FindByIdAndDelete(pm, id)
    /\ resp' = [resp EXCEPT ![c] = Response(200, DeletedMsg, 0)]
    /\ UNCHANGED <<catalogVars, skuVars, nextId, upload, tmpFile, inflight>>

\* DELETE /api/skus/:id
DeleteSku(c, id) ==
    /\ Quiet
    /\ skus' = FindByIdAndDelete(skus, id)
    /\ resp' = [resp EXCEPT ![c] = Response(200, "SKU deleted successfully", 0)]
    /\ UNCHANGED <<catalogVars, categories, nextCat, deleting, pm, nextId, upload, tmpFile,
                   inflight>>

\* DELETE /api/vendors/:id
DeleteVendor(c, id) ==
    /\ Quiet
    /\ vendors' = vendors \ {id}
    /\ resp' = [resp EXCEPT ![c] = Response(200, "Vendor deleted successfully", 0)]
    /\ UNCHANGED <<simpleLocations, locations, skuVars, pm, nextId, upload,
                   tmpFile, inflight>>

\* DELETE /api/simple-locations/:id
DeleteSimpleLocation(c, id) ==
    /\ Quiet
    /\ simpleLocations' = simpleLocations \ {id}
    /\ resp' = [resp EXCEPT ![c] =
                   Response(200, "Simple location deleted successfully", 0)]
    /\ UNCHANGED <<vendors, locations, skuVars, pm, nextId, upload, tmpFile,
                   inflight>>

----------------------------------------------------------------------------
(* The read paths that format stored price mappings.                       *)

UnknownLocation == "Unknown Location"
MappingNotFound == "Price mapping not found"
NullDereference == "Cannot read properties of null"   \* message of the TypeError
AllPayload      == "all"       \* the object /api/external/all answers with

\* the name stored with a SimpleLocation or Location (required, so never empty)
NameOf(id) ==
    CASE id = "l1" -> "Market"
      [] id = "l5" -> "Depot"
      [] OTHER     -> "Store"

\* doc.populate(path): the referenced document, or null ("") when the
\* collection holds no document with that _id
Populate(ids, id) == IF id \in ids THEN id ELSE ""

\* the body of the formatting loop for one mapping; `external` is TRUE on the
\* paths that call .toString() on the ids
FormatMapping(id, doc, skuIds, vendorIds, simpleIds, oldIds, external) ==
    LET sku == Populate(skuIds, doc.sku_id)
        vendor == Populate(vendorIds, doc.vendor_id)
        populated == Populate(simpleIds, doc.location_id)
        named == populated # "" /\ NameOf(populated) # ""
        oldLocation == IF populated # "" /\ ~named
                       THEN FindById(oldIds, populated) ELSE "null"
        locationName == IF named THEN NameOf(populated)
                        ELSE IF oldLocation = "doc" THEN NameOf(populated)
                        ELSE UnknownLocation
        locationId == populated
    IN  [threw |-> sku = "" \/ vendor = "" \/ (external /\ locationId = ""),
         item |-> [id |-> id, sku_id |-> sku, vendor_id |-> vendor,
                   location_id |-> locationId, location_name |-> locationName,
                   stringified |-> external]]

\* find().sort({ createdAt: -1 }): the newest (highest _id) first
RECURSIVE NewestFirst(_)
NewestFirst(ids) ==
    IF ids = {} THEN <<>>
    ELSE LET newest == CHOOSE i \in ids : \A j \in ids : j <= i
         IN  <<newest>> \o NewestFirst(ids \ {newest})

\* the whole loop over the mappings found, and the handler's answer: the
\* first mapping whose formatting throws sends the request to the catch
FormatAll(coll, skuIds, vendorIds, simpleIds, oldIds, external, text) ==
    LET order == NewestFirst(DOMAIN coll)
        each == [k \in 1..Len(order) |->
                    FormatMapping(order[k], coll[order[k]], skuIds, vendorIds,
                                  simpleIds, oldIds, external)]
    IN  IF \E k \in 1..Len(order) : each[k].threw
        THEN Response(500, NullDereference, 0)
        ELSE [Response(200, text, 0) EXCEPT
                 !.items = [k \in 1..Len(order) |-> each[k].item]]

\* GET /api/price-mappings
GetPriceMappings(c) ==
    /\ Quiet
    /\ resp' = [resp EXCEPT ![c] =
                   FormatAll(pm, DOMAIN skus, vendors, simpleLocations, DOMAIN locations,
                             FALSE, "")]
    /\ UNCHANGED <<catalogVars, skuVars, pm, nextId, upload, tmpFile, inflight>>

\* GET /api/external/price-mappings
GetExternalPriceMappings(c) ==
    /\ Quiet
    /\ resp' = [resp EXCEPT ![c] =
                   FormatAll(pm, DOMAIN skus, vendors, simpleLocations, DOMAIN locations,
                             TRUE, "")]
    /\ UNCHANGED <<catalogVars, skuVars, pm, nextId, upload, tmpFile, inflight>>

\* GET /api/external/price-mappings/:id
GetExternalPriceMapping(c, id) ==
    /\ Quiet
    /\ resp' = [resp EXCEPT ![c] =
                   IF id \notin DOMAIN pm THEN Response(404, MappingNotFound, 0)
                   ELSE LET f == FormatMapping(id, pm[id], DOMAIN skus, vendors,
                                               simpleLocations, DOMAIN locations, TRUE)
                        IN  IF f.threw THEN Response(500, NullDereference, 0)
                            ELSE [Response(200, "", id) EXCEPT !.items = <<f.item>>]]
    /\ UNCHANGED <<catalogVars, skuVars, pm, nextId, upload, tmpFile, inflight>>

\* GET /api/external/all: the price_mappings part of its answer
GetExternalAll(c) ==
    /\ Quiet
    /\ resp' = [resp EXCEPT ![c] =
                   FormatAll(pm, DOMAIN skus, vendors, simpleLocations, DOMAIN locations,
                             TRUE, AllPayload)]
    /\ UNCHANGED <<catalogVars, skuVars, pm, nextId, upload, tmpFile, inflight>>

----------------------------------------------------------------------------
(* The SKU handlers.                                                       *)

SkuCreated   == "SKU created successfully"
SkuUpdated   == "SKU updated successfully"
SkuInvalid   == "SKU validation failed"

\* the form fields of a SKU request that the model varies
SkuRequest(unit_value, category_level4_id, buying_price, buying_vat, selling_price) ==
    [unit_value |-> unit_value, category_level4_id |-> category_level4_id,
     buying_price |-> buying_price, buying_vat |-> buying_vat,
     selling_price |-> selling_price]

\* a price field of the body as the handlers store it, or `absent`
PriceField(v, absent) == IF Given(v) THEN toFixed(Number(v)) ELSE absent
VatField(v, absent)   == IF Given(v) THEN parseFloat(v) ELSE absent

\* skuData of POST /api/skus with the schema's defaults filled in
skuData(body) ==
    SkuDoc(body.unit_value, body.category_level4_id,
           PriceField(body.buying_price, Num(0)),
           VatField(body.buying_vat, Num(0)),
           Num(0),
           PriceField(body.selling_price, Undefined))

\* validation of a new SKU: unit_value and selling_price are required, and
\* buying_vat casts to a Number
SkuPassesValidation(doc) ==
    /\ doc.unit_value # <<>>
    /\ doc.selling_price # Undefined
    /\ CastsToNumber(doc.buying_vat, FALSE)

\* POST /api/skus, the whole handler
CreateSku(c, id, body) ==
    /\ Quiet
    /\ id \notin DOMAIN skus
    /\ LET doc == skuData(body)
       IN  IF SkuPassesValidation(doc)
           THEN /\ skus' = skus @@ (id :> preSave(doc))
                /\ resp' = [resp EXCEPT ![c] = Response(200, SkuCreated, 0)]
           ELSE /\ skus' = skus
                /\ resp' = [resp EXCEPT ![c] = Response(500, SkuInvalid, 0)]
    /\ UNCHANGED <<catalogVars, categories, nextCat, deleting, pm, nextId, upload,
                   tmpFile, inflight>>

\* updateData of PUT /api/skus/:id; a field the handler does not set is
\* undefined
updateData(body) ==
    SkuDoc(body.unit_value, body.category_level4_id,
           PriceField(body.buying_price, Undefined),
           VatField(body.buying_vat, Undefined),
           Undefined,
           PriceField(body.selling_price, Undefined))

\* PUT /api/skus/:id, the whole handler
UpdateSku(c, id, body) ==
    /\ Quiet
    /\ LET update == preFindOneAndUpdate(updateData(body))
       IN  IF ~CastsToObjectId(id) \/ ~CastsToNumber(update.buying_vat, FALSE)
           THEN /\ skus' = skus
                /\ resp' = [resp EXCEPT ![c] = Response(500, CastFailed, 0)]
           ELSE /\ skus' = [s \in DOMAIN skus |->
                              IF s = id THEN ApplyUpdate(skus[s], update)
                              ELSE skus[s]]
                /\ resp' = [resp EXCEPT ![c] = Response(200, SkuUpdated, 0)]
    /\ UNCHANGED <<catalogVars, categories, nextCat, deleting, pm, nextId, upload,
                   tmpFile, inflight>>

----------------------------------------------------------------------------
(* The category handlers.  The four levels are four collections; a node of *)
(* level n + 1 names its parent of level n.                                *)

CategoryCreated == "created successfully"
CategoryDeleted == "deleted successfully"
CategoryInvalid == "category validation failed"
HasChildren     == "has child category(ies)"
UsedByProducts  == "used by product(s)"

\* a refusal with the count the message carries
Refusal(text, n) == [Response(400, text, 0) EXCEPT !.count = n]

\* CategoryLevel<level>.find({ <parent field>: { $in: ids } })
Children(coll, level, ids) ==
    {n \in DOMAIN coll : coll[n].level = level /\ coll[n].parent \in ids}

\* SKU.countDocuments({ category_level4_id: { $in: ids } })
SkusCount(skuColl, ids) ==
    Cardinality({s \in DOMAIN skuColl : skuColl[s].category_level4_id \in ids})

\* CategoryLevel<level>.findByIdAndDelete(id)
DeleteNode(coll, level, id) ==
    [n \in {m \in DOMAIN coll : ~(m = id /\ coll[m].level = level)} |-> coll[n]]

\* POST /api/categories, /api/sub-categories, /api/category-level3 and
\* /api/category-level4: the parent is required from level 2 on and is not
\* looked up
CreateCategory(c, level, parent) ==
    /\ Quiet
    /\ nextCat <= MaxNodes
    /\ IF level > 1 /\ parent = NoCategory
       THEN /\ UNCHANGED <<categories, nextCat>>
            /\ resp' = [resp EXCEPT ![c] = Response(500, CategoryInvalid, 0)]
       ELSE /\ categories' = categories @@
                  (nextCat :> CategoryNode(level, IF level = 1 THEN NoCategory
                                                  ELSE parent))
            /\ nextCat' = nextCat + 1
            /\ resp' = [resp EXCEPT ![c] = Response(200, CategoryCreated, nextCat)]
    /\ UNCHANGED <<catalogVars, skus, deleting, pm, nextId, upload, tmpFile,
                   inflight>>

\* the answer of a delete handler and the collection it leaves
Guarded(coll, level, id, childCount, skusCount) ==
    IF childCount > 0
    THEN [coll |-> coll, resp |-> Refusal(HasChildren, childCount)]
    ELSE IF skusCount > 0
    THEN [coll |-> coll, resp |-> Refusal(UsedByProducts, skusCount)]
    ELSE [coll |-> DeleteNode(coll, level, id),
          resp |-> Response(200, CategoryDeleted, 0)]

\* DELETE /api/categories/:id (level 1)
DeleteCategory(coll, skuColl, id) ==
    LET level2Ids == Children(coll, 2, {id})
        level3Ids == Children(coll, 3, level2Ids)
        level4Ids == Children(coll, 4, level3Ids)
    IN  Guarded(coll, 1, id, Cardinality(level2Ids),
                SkusCount(skuColl, level4Ids))

\* DELETE /api/sub-categories/:id (level 2)
DeleteSubCategory(coll, skuColl, id) ==
    LET level3Ids == Children(coll, 3, {id})
        level4Ids == Children(coll, 4, level3Ids)
    IN  Guarded(coll, 2, id, Cardinality(level3Ids),
                SkusCount(skuColl, level4Ids))

\* DELETE /api/category-level3/:id
DeleteCategoryLevel3(coll, skuColl, id) ==
    LET level4Ids == Children(coll, 4, {id})
    IN  Guarded(coll, 3, id, Cardinality(level4Ids),
                SkusCount(skuColl, level4Ids))

\* DELETE /api/category-level4/:id without its check of the SKUs
DeleteCategoryLevel4Unchecked(coll, skuColl, id) ==
    Guarded(coll, 4, id, 0, 0)

\* DELETE /api/category-level4/:id
DeleteCategoryLevel4(coll, skuColl, id) ==
    Guarded(coll, 4, id, 0, SkusCount(skuColl, {id}))

\* the delete handler of each level
DeleteHandler(level, coll, skuColl, id) ==
    CASE level = 1 -> DeleteCategory(coll, skuColl, id)
      [] level = 2 -> DeleteSubCategory(coll, skuColl, id)
      [] level = 3 -> DeleteCategoryLevel3(coll, skuColl, id)
      [] level = 4 -> DeleteCategoryLevel4(coll, skuColl, id)

\* a DELETE request to the handler of `level`
DeleteCategoryRequest(c, level, id) ==
    /\ Quiet
    /\ LET r == DeleteHandler(level, categories, skus, id)
       IN  /\ categories' = r.coll
           /\ resp' = [resp EXCEPT ![c] = r.resp]
    /\ UNCHANGED <<catalogVars, skus, nextCat, deleting, pm, nextId, upload, tmpFile,
                   inflight>>

\* a DELETE request of `level` up to its last count: refused at once, or
\* suspended at the await before findByIdAndDelete
DeleteCategoryBegin(c, level, id) ==
    /\ Quiet
    /\ deleting = NoDelete
    /\ LET r == DeleteHandler(level, categories, skus, id)
       IN  IF r.resp.status = 400
           THEN /\ resp' = [resp EXCEPT ![c] = r.resp]
                /\ UNCHANGED deleting
           ELSE /\ resp' = [resp EXCEPT ![c] = NoResponse]
                /\ deleting' = [client |-> c, level |-> level, id |-> id]
    /\ UNCHANGED <<catalogVars, skus, categories, nextCat, pm, nextId, upload,
                   tmpFile, inflight>>

\* the rest of the suspended request: findByIdAndDelete and the 200
DeleteCategoryEnd ==
    /\ deleting # NoDelete
    /\ categories' = DeleteNode(categories, deleting.level, deleting.id)
    /\ resp' = [resp EXCEPT ![deleting.client] = Response(200, CategoryDeleted, 0)]
    /\ deleting' = NoDelete
    /\ UNCHANGED <<catalogVars, skus, nextCat, pm, nextId, upload, tmpFile,
                   inflight>>

\* one entry of the listing of GET /api/categories
CategoryEntry(coll, skuColl, id) ==
    LET level2Ids == Children(coll, 2, {id})
        level3Ids == Children(coll, 3, level2Ids)
        level4Ids == Children(coll, 4, level3Ids)
        level2Count == Cardinality(level2Ids)
        skusCount == SkusCount(skuColl, level4Ids)
    IN  [id |-> id, sub_categories_count |-> level2Count,
         skus_count |-> skusCount,
         can_delete |-> (level2Count = 0 /\ skusCount = 0)]

\* GET /api/categories: the level 1 categories, newest first
GetCategories(c) ==
    /\ Quiet
    /\ LET order == NewestFirst({n \in DOMAIN categories :
                                    categories[n].level = 1})
       IN  resp' = [resp EXCEPT ![c] =
             [Response(200, "", 0) EXCEPT !.items =
                 [k \in DOMAIN order |-> CategoryEntry(categories, skus, order[k])]]]
    /\ UNCHANGED <<catalogVars, skuVars, pm, nextId, upload, tmpFile, inflight>>

\* one entry of the listings of GET /api/sub-categories, /api/category-level3
\* and /api/category-level4; levels 2 and 3 also count their children
LevelEntry(level, coll, skuColl, id) ==
    LET childIds == Children(coll, level + 1, {id})
        level4Ids == CASE level = 2 -> Children(coll, 4, childIds)
                       [] level = 3 -> childIds
                       [] level = 4 -> {id}
        childCount == Cardinality(childIds)
        skusCount == SkusCount(skuColl, level4Ids)
    IN  IF level = 4
        THEN [id |-> id, parent_id |-> coll[id].parent, skus_count |-> skusCount,
              can_delete |-> (skusCount = 0)]
        ELSE [id |-> id, parent_id |-> coll[id].parent, skus_count |-> skusCount,
              children_count |-> childCount,
              can_delete |-> (skusCount = 0 /\ childCount = 0)]

\* GET /api/sub-categories, /api/category-level3 and /api/category-level4 with
\* the optional filter on the parent (NoCategory: no filter), newest first;
\* reading ._id of a parent that populate() left null throws and answers 500
GetLevel(c, level, filter) ==
    /\ Quiet
    /\ LET found == {n \in DOMAIN categories :
                        /\ categories[n].level = level
                        /\ filter # NoCategory => categories[n].parent = filter}
           parents == {n \in DOMAIN categories : categories[n].level = level - 1}
           order == NewestFirst(found)
       IN  resp' = [resp EXCEPT ![c] =
             IF \E n \in found : categories[n].parent \notin parents
             THEN Response(500, NullDereference, 0)
             ELSE [Response(200, "", 0) EXCEPT !.items =
                     [k \in DOMAIN order |->
                         LevelEntry(level, categories, skus, order[k])]]]
    /\ UNCHANGED <<catalogVars, skuVars, pm, nextId, upload, tmpFile, inflight>>

----------------------------------------------------------------------------
(* The migration script of the Location collection.                        *)

NotNeeded  == "All locations already have domains. Migration not needed."
Completed  == "Migration completed successfully! All locations now have domains."
StillEmpty == "locations still have empty domains"

\* { $or: [{ domains: { $exists: false } }, { domains: { $size: 0 } }] }
EmptyDomains(doc) == ~doc.has_domains \/ doc.domains = <<>>

\* { $regex: /pattern/i }: the pattern occurs in the text, letters compared
\* without case
RegexTest(text, pattern) ==
    LET Lower(ch) == CASE ch = "M" -> "m" [] ch = "A" -> "a" [] ch = "X" -> "x"
                       [] ch = "I" -> "i" [] ch = "G" -> "g" [] ch = "B" -> "b"
                       [] OTHER -> ch
    IN  \E k \in 0..(Len(text) - Len(pattern)) :
            \A i \in 1..Len(pattern) : Lower(text[k + i]) = Lower(pattern[i])

\* the $or of the three size patterns
LargeSize(size) ==
    \/ RegexTest(size, <<"M", "a", "x", "i">>)
    \/ RegexTest(size, <<"G", "B">>)
    \/ RegexTest(size, <<"B", "ü", "y", "ü", "k">>)

\* Location.updateMany(filter, { $set: { domains } }); `matched` holds the
\* _id of the documents the filter selects
updateMany(coll, matched, domains) ==
    [id \in DOMAIN coll |->
        IF id \in matched
        THEN [coll[id] EXCEPT !.has_domains = TRUE, !.domains = domains]
        ELSE coll[id]]

\* the filter of steps 2 and 3: the demography, a large size and domains
\* other than the two values the step writes
LargeWithout(coll, premium) ==
    {id \in DOMAIN coll :
        /\ (coll[id].demography = "Premium") = premium
        /\ LargeSize(coll[id].size)
        /\ ~coll[id].has_domains \/ coll[id].domains # GetirBoth}

\* migrateProductionLocations without its early return
migrateAlways(coll) ==
    LET step1 == updateMany(coll, {id \in DOMAIN coll : EmptyDomains(coll[id])},
                            GetirOnly)
        step2 == updateMany(step1, LargeWithout(step1, TRUE), GetirBoth)
    IN  updateMany(step2, LargeWithout(step2, FALSE), GetirBoth)

\* migrateProductionLocations: the collection it leaves
migrateProductionLocations(coll) ==
    LET empty == {id \in DOMAIN coll : EmptyDomains(coll[id])}
    IN  IF Cardinality(empty) = 0
        THEN coll
        ELSE LET step1 == updateMany(coll, empty, GetirOnly)
                 step2 == updateMany(step1, LargeWithout(step1, TRUE), GetirBoth)
             IN  updateMany(step2, LargeWithout(step2, FALSE), GetirBoth)

\* one run of the script; its last console line and the number of documents
\* step 1 found are kept as the answer to client c
Migrate(c) ==
    /\ Quiet
    /\ LET emptyDomains == Cardinality({id \in DOMAIN locations :
                                           EmptyDomains(locations[id])})
           after == migrateProductionLocations(locations)
           remainingEmpty == Cardinality({id \in DOMAIN after :
                                             EmptyDomains(after[id])})
       IN  /\ locations' = after
           /\ resp' = [resp EXCEPT ![c] =
                 [Response(0, IF emptyDomains = 0 THEN NotNeeded
                              ELSE IF remainingEmpty = 0 THEN Completed
                              ELSE StillEmpty, 0)
                    EXCEPT !.count = emptyDomains]]
    /\ UNCHANGED <<vendors, simpleLocations, skuVars, pm, nextId, upload, tmpFile,
                   inflight>>

----------------------------------------------------------------------------
(* The upload handler's actions.                                           *)

\* POST /api/upload-excel without a file: 400 before anything is read
UploadNoFile(c) ==
    /\ Quiet
    /\ resp' = [resp EXCEPT ![c] = Response(400, NoFileMsg, 0)]
    /\ tmpFile' = "none"
    /\ UNCHANGED <<catalogVars, skuVars, pm, nextId, upload, inflight>>

\* POST /api/upload-excel with a file multer has stored: the workbook is read
\* and parsed into n rows, or reading it throws and the catch answers 500
UploadStart(c, readable, n) ==
    /\ upload.pc = "idle"
    /\ ~inflight[c].active
    /\ tmpFile' = "stored"
    /\ IF readable
       THEN /\ upload' = UploadLocals(c, "rows", n)
            /\ resp' = [resp EXCEPT ![c] = NoResponse]
       ELSE /\ upload' = NoUpload
            /\ resp' = [resp EXCEPT ![c] = Response(500, ProcessingError, 0)]
    /\ UNCHANGED <<catalogVars, skuVars, pm, nextId, inflight>>

\* what one iteration of the row loop makes of the current state
UploadRowResult(row) ==
    RowRespond(upload, pm, nextId, row,
               RowLookup(row, skus, vendors, simpleLocations, pm))

\* UploadRow with an exception of a row escaping to the handler's outer catch
UploadRowPropagates(row) ==
    /\ upload.pc = "rows"
    /\ upload.index < upload.n
    /\ ~inflight[upload.client].active
    /\ LET r == UploadRowResult(row)
           e == r.upload.errors
           threw == /\ r.upload.errorCount > upload.errorCount
                    /\ e[Len(e)].text \in {CastFailed, ValidationFailed, DocumentNotFound}
       IN  /\ r.nextId <= MaxDocs + 1
           /\ pm' = r.pm
           /\ nextId' = r.nextId
           /\ IF threw
              THEN /\ upload' = NoUpload
                   /\ resp' = [resp EXCEPT ![upload.client] =
                                  Response(500, ProcessingError, 0)]
              ELSE /\ upload' = r.upload
                   /\ resp' = resp
    /\ UNCHANGED <<catalogVars, skuVars, tmpFile, inflight>>

\* one iteration of the row loop
UploadRow(row) ==
    /\ upload.pc = "rows"
    /\ upload.index < upload.n
    /\ ~inflight[upload.client].active
    /\ LET r == UploadRowResult(row)
       IN  /\ r.nextId <= MaxDocs + 1
           /\ pm' = r.pm
           /\ nextId' = r.nextId
           /\ upload' = r.upload
    /\ UNCHANGED <<catalogVars, skuVars, resp, tmpFile, inflight>>

\* after the loop: fs.unlinkSync(req.file.path), then the report
UploadFinish ==
    /\ upload.pc = "rows"
    /\ upload.index = upload.n
    /\ tmpFile' = "deleted"
    /\ resp' = [resp EXCEPT ![upload.client] =
                   Report(upload.successCount, upload.errorCount,
                          Slice(upload.errors, ErrorLimit))]
    /\ upload' = NoUpload
    /\ UNCHANGED <<catalogVars, skuVars, pm, nextId, inflight>>

\* single-record requests, deletes and uploads, one request at a time
Next ==
    \/ \E body \in CoreBodies : Upsert("c1", body)
    \/ \E id \in 1..MaxDocs : DeletePriceMapping("c1", id)
    \/ \E readable \in BOOLEAN, n \in 0..MaxRows : UploadStart("c1", readable, n)
    \/ \E row \in CoreRows : UploadRow(row)
    \/ UploadFinish

Spec == Init /\ [][Next]_vars

\* single-record requests and deletes over every kind of request body
NextSingle ==
    \/ \E body \in Bodies : Upsert("c1", body)
    \/ \E id \in 1..MaxDocs : DeletePriceMapping("c1", id)

SpecSingle == Init /\ [][NextSingle]_vars

\* the single-record operations over every combination of optional fields
NextOptions ==
    \/ \E body \in OptionBodies : Upsert("c1", body)
    \/ \E id \in 1..MaxDocs : DeletePriceMapping("c1", id)

SpecOptions == Init /\ [][NextOptions]_vars

\* single-record writes followed by the read paths
NextRead ==
    \/ \E body \in ReadBodies : Upsert("c1", body)
    \/ \E id \in 1..MaxDocs : DeletePriceMapping("c1", id)
    \/ GetPriceMappings("c1")
    \/ GetExternalPriceMappings("c1")
    \/ \E id \in 1..MaxDocs : GetExternalPriceMapping("c1", id)
    \/ GetExternalAll("c1")

SpecRead == Init /\ [][NextRead]_vars

\* uploads alone, over every kind of row
NextBulk ==
    \/ UploadNoFile("c1")
    \/ \E readable \in BOOLEAN, n \in 0..MaxRows : UploadStart("c1", readable, n)
    \/ \E row \in Rows : UploadRow(row)
    \/ UploadFinish

SpecBulk == Init /\ [][NextBulk]_vars

\* uploads of long sheets
NextLong ==
    \/ \E n \in 0..MaxLongRows : UploadStart("c1", TRUE, n)
    \/ \E row \in LongRows : UploadRow(row)
    \/ UploadFinish

SpecLong == Init /\ [][NextLong]_vars

\* SKU updates that only move the SKU to another level 4 category
CategoryChoices ==
    {SkuRequest(<<"1", " ", "k", "g">>, n, Undefined, Undefined, Undefined) :
        n \in 0..MaxNodes}

\* categories of the four levels are created and deleted, SKUs are moved
\* between them and the top level is listed
NextCategory ==
    \/ \E level \in 1..4 : \E parent \in DOMAIN categories \cup {NoCategory} :
          CreateCategory("c1", level, parent)
    \/ \E level \in 1..4 : \E id \in 1..MaxNodes :
          DeleteCategoryRequest("c1", level, id)
    \/ \E body \in CategoryChoices : UpdateSku("c1", "s1", body)
    \/ GetCategories("c1")

SpecCategory == Init /\ [][NextCategory]_vars

\* categories are created and deleted, SKUs are moved, every level is listed
SpecListing ==
    Init /\ [][ \/ \E level \in 1..4 :
                    \E parent \in DOMAIN categories \cup {NoCategory} :
                       CreateCategory("c1", level, parent)
                \/ \E level \in 1..4 : \E id \in 1..MaxNodes :
                       DeleteCategoryRequest("c1", level, id)
                \/ \E body \in CategoryChoices : UpdateSku("c1", "s1", body)
                \/ GetCategories("c1")
                \/ \E level \in 2..4 : \E filter \in 0..MaxNodes :
                       GetLevel("c1", level, filter) ]_vars

\* one client deletes categories while another creates them and moves a SKU
SpecGuard ==
    Init /\ [][ \/ \E level \in 1..4 :
                    \E parent \in DOMAIN categories \cup {NoCategory} :
                       CreateCategory("c2", level, parent)
                \/ \E body \in CategoryChoices : UpdateSku("c2", "s1", body)
                \/ \E level \in 1..4 : \E id \in 1..MaxNodes :
                       DeleteCategoryBegin("c1", level, id)
                \/ DeleteCategoryEnd ]_vars

\* the Location documents the migration is run on
LocationIds == {"l5", "l6", "l7"}
LocationDocs ==
    {LocationDoc(demography, size, has_domains, domains) :
        demography \in {"Premium", "Traditional"},
        size \in {<<"M", "i", "n", "i">>, <<"M", "a", "x", "i">>,
                  <<"m", "a", "x", "i">>, <<"1", "G", "B">>,
                  <<"B", "ü", "y", "ü", "k">>},
        has_domains \in BOOLEAN,
        domains \in {<<>>, GetirOnly, GetirBoth, <<"Getir Büyük", "Getir">>,
                     <<"Getir Yemek">>}}

\* any collection of up to MaxLocations documents, then runs of the script
InitMigration ==
    /\ \E ids \in SUBSET LocationIds :
          /\ Cardinality(ids) <= MaxLocations
          /\ locations \in [ids -> {doc \in LocationDocs :
                                       ~doc.has_domains => doc.domains = <<>>}]
    /\ skus = ("s1" :> SeedSku(<<"1", ".", "5", " ", "L">>))
              @@ ("s2" :> SeedSku(<<"0", " ", "g">>))
    /\ categories = [i \in {} |-> CategoryNode(1, 0)]
    /\ nextCat = 1
    /\ vendors = {"v1"}
    /\ simpleLocations = {"l1"}
    /\ pm = [i \in {} |-> NoDoc]
    /\ nextId = 1
    /\ resp = [c \in Clients |-> NoResponse]
    /\ upload = NoUpload
    /\ tmpFile = "none"
    /\ inflight = [c \in Clients |-> Idle]
    /\ deleting = NoDelete

SpecMigration == InitMigration /\ [][Migrate("c1")]_vars

\* SKU forms that vary the buying price, the VAT and the selling price
SkuBodies ==
    {SkuRequest(<<"1", " ", "k", "g">>, NoCategory, bp, vat, sp) :
        bp \in {Undefined, Str(""), Num(0), Num(100), Num(120)},
        vat \in {Undefined, Num(0), Str("0"), Num(20)},
        sp \in {Undefined, Num(5)}}

\* SKUs are created and edited
NextSku ==
    \/ \E body \in SkuBodies : CreateSku("c1", "s3", body)
    \/ \E id \in {"s1", "s3"} : \E body \in SkuBodies : UpdateSku("c1", id, body)

SpecSku == Init /\ [][NextSku]_vars

\* the characters the unit_value strings of SpecUnit are made of
UnitChars == {"0", "5", "."}

\* unit_value strings: every string of up to MaxLen characters, and the
\* longer ones a catalogue typically holds
UnitValues ==
    UNION {[1..n -> UnitChars] : n \in 0..MaxLen}
    \cup {<<"2", " ", "k", "g">>, <<"1", ".", "5", " ", "L">>, <<"k", "g">>,
          <<"5", "0", "0", "g">>, <<"1", "0", ".", "2", "5", "k">>,
          <<"x", "2", ".", "5", ".", "7">>, <<"k", "5">>, <<"5", "k", "0">>}

\* SKU forms that only change the unit_value
UnitForms ==
    {SkuRequest(u, NoCategory, Undefined, Undefined, Undefined) : u \in UnitValues}

\* upserts of one triple
UnitBodies ==
    {Request("s1", "v1", "l1", Num(p), Undefined, Undefined, Undefined) :
        p \in {0, 2}}

\* the unit_value of a SKU is edited between upserts of its price
NextUnit ==
    \/ \E body \in UnitForms : UpdateSku("c1", "s1", body)
    \/ \E body \in UnitBodies : Upsert("c1", body)

SpecUnit == Init /\ [][NextUnit]_vars

\* requests and rows of one triple that vary the price and the struck price
StruckBodies ==
    {Request("s1", "v1", "l1", p, sp, Undefined, Undefined) :
        p \in {Num(-1), Num(0), Num(1), Num(2)},
        sp \in StruckVals \cup {Num(-2), Num(3), Str("abc")}}

\* single-record upserts and bulk imports that carry struck prices
NextStruck ==
    \/ \E body \in StruckBodies : Upsert("c1", body)
    \/ \E n \in 0..MaxRows : UploadStart("c1", TRUE, n)
    \/ \E row \in StruckBodies : UploadRow(row)
    \/ UploadFinish

SpecStruck == Init /\ [][NextStruck]_vars

----------------------------------------------------------------------------
(* Requests overlap: a handler is suspended at the await of its save, after *)
(* its findOne has returned, and other handlers run in between.            *)

Suspended(body, lk) == [active |-> TRUE, body |-> body, lk |-> lk]

\* POST /api/price-mappings up to the await of save(); a request that fails a
\* check is answered at once
UpsertBegin(c, body) ==
    /\ ~inflight[c].active
    /\ upload.client # c
    /\ LET lk == UpsertLookup(body, skus, pm)
       IN  IF lk.outcome = "proceed"
           THEN /\ inflight' = [inflight EXCEPT ![c] = Suspended(body, lk)]
                /\ resp' = [resp EXCEPT ![c] = NoResponse]
           ELSE /\ resp' = [resp EXCEPT ![c] =
                               UpsertRespond(pm, nextId, body, lk).resp]
                /\ UNCHANGED inflight
    /\ UNCHANGED <<catalogVars, skuVars, pm, nextId, upload, tmpFile>>

\* the save and the response of a suspended POST /api/price-mappings
UpsertEnd(c) ==
    /\ inflight[c].active
    /\ upload.client # c
    /\ LET r == UpsertRespond(pm, nextId, inflight[c].body, inflight[c].lk)
       IN  /\ r.nextId <= MaxDocs + 1
           /\ pm' = r.pm
           /\ nextId' = r.nextId
           /\ resp' = [resp EXCEPT ![c] = r.resp]
    /\ inflight' = [inflight EXCEPT ![c] = Idle]
    /\ UNCHANGED <<catalogVars, skuVars, upload, tmpFile>>

\* one iteration of the row loop up to the await of save(); a row that fails
\* a check is recorded at once
UploadRowBegin(row) ==
    /\ upload.pc = "rows"
    /\ upload.index < upload.n
    /\ ~inflight[upload.client].active
    /\ LET lk == RowLookup(row, skus, vendors, simpleLocations, pm)
       IN  IF lk.outcome = "proceed"
           THEN /\ inflight' = [inflight EXCEPT ![upload.client] = Suspended(row, lk)]
                /\ UNCHANGED upload
           ELSE /\ upload' = RowRespond(upload, pm, nextId, row, lk).upload
                /\ UNCHANGED inflight
    /\ UNCHANGED <<catalogVars, skuVars, pm, nextId, resp, tmpFile>>

\* the save of a suspended row
UploadRowEnd ==
    /\ upload.pc = "rows"
    /\ inflight[upload.client].active
    /\ LET r == RowRespond(upload, pm, nextId, inflight[upload.client].body,
                           inflight[upload.client].lk)
       IN  /\ r.nextId <= MaxDocs + 1
           /\ pm' = r.pm
           /\ nextId' = r.nextId
           /\ upload' = r.upload
    /\ inflight' = [inflight EXCEPT ![upload.client] = Idle]
    /\ UNCHANGED <<catalogVars, skuVars, resp, tmpFile>>

\* two clients post single records while a third uploads a sheet
NextRace ==
    \/ \E c \in {"c1", "c2"}, body \in RaceBodies : UpsertBegin(c, body)
    \/ \E c \in {"c1", "c2"} : UpsertEnd(c)
    \/ \E n \in 0..MaxRows : UploadStart("c3", TRUE, n)
    \/ \E row \in RaceRows : UploadRowBegin(row)
    \/ UploadRowEnd
    \/ UploadFinish

SpecRace == Init /\ [][NextRace]_vars

\* requests and rows that name a vendor and a price-location on record or not
ReferenceBodies ==
    {Request("s1", v, l, Num(2), sp, Undefined, Undefined) :
        v \in {"v1", "v9"}, l \in {"l1", "l9"}, sp \in {Undefined, Num(1)}}

\* upserts, uploads and the deletes of every collection a mapping refers to
SpecReferences ==
    Init /\ [][ \/ \E body \in ReferenceBodies : Upsert("c1", body)
                \/ \E id \in 1..MaxDocs : DeletePriceMapping("c1", id)
                \/ \E n \in 0..MaxRows : UploadStart("c1", TRUE, n)
                \/ \E row \in ReferenceBodies : UploadRow(row)
                \/ UploadFinish
                \/ \E id \in {"s1", "s2"} : DeleteSku("c1", id)
                \/ DeleteVendor("c1", "v1")
                \/ DeleteSimpleLocation("c1", "l1") ]_vars

\* two clients post single records of one triple, with and without a currency
SpecLastWrite ==
    Init /\ [][ \/ \E c \in {"c1", "c2"} :
                    \E p \in {Num(1), Num(2)}, currency \in {Undefined, Str("USD")} :
                       UpsertBegin(c, Request("s1", "v1", "l1", p, Undefined,
                                              Undefined, currency))
                \/ \E c \in {"c1", "c2"} : UpsertEnd(c) ]_vars

----------------------------------------------------------------------------
(* Vocabulary of the properties.                                           *)

SameTriple(a, b) ==
    /\ a.sku_id = b.sku_id
    /\ a.vendor_id = b.vendor_id
    /\ a.location_id = b.location_id

\* the records of a collection that carry the triple of a request
RecordsFor(coll, body) == {i \in DOMAIN coll : SameTriple(coll[i], body)}

\* every record of `before` is in `after`, unchanged unless it is in `except`
Kept(before, after, except) ==
    \A i \in DOMAIN before \ except : i \in DOMAIN after /\ after[i] = before[i]

IsNumber(v) == v.k = "number"
Less(a, b) == IsNumber(a) /\ IsNumber(b) /\ a.n * b.d < b.n * a.d
AtLeast(a, b) == IsNumber(a) /\ IsNumber(b) /\ a.n * b.d >= b.n * a.d

----------------------------------------------------------------------------
(* C1: under serially executed single-record upserts, bulk imports and     *)
(* deletes, starting from an empty collection, there is at most one        *)
(* PriceMapping record for each (sku_id, vendor_id, location_id) triple.   *)

C1_UniqueTriple ==
    \A i, j \in DOMAIN pm : SameTriple(pm[i], pm[j]) => i = j

\* an upload whose two rows both succeeded although only one record was ever
\* inserted: the second write found the record of the first
C1_Witness ==
    /\ resp["c1"].text = ProcessedMsg
    /\ resp["c1"].successCount = 2
    /\ nextId = 2
    /\ Cardinality(DOMAIN pm) = 1

----------------------------------------------------------------------------
(* C2: the lookup and the save of an upsert are not atomic.  A save whose  *)
(* lookup found no mapping inserts a new record whatever has been inserted *)
(* since that lookup, by a single-record request or by a row of an upload; *)
(* so two upserts of one triple that both look up before either saves both *)
(* insert, and the collection ends with two records for the triple.        *)

C2_SaveAfterStaleLookupInserts ==
    [][\A c \in Clients :
          ( /\ inflight[c].active
            /\ ~inflight'[c].active
            /\ inflight[c].lk.existing = 0
            /\ inflight[c].lk.unitPrice.k \in {"number", "Infinity"} )
          => /\ nextId \notin DOMAIN pm
             /\ DOMAIN pm' = DOMAIN pm \cup {nextId}
             /\ Kept(pm, pm', {})
             /\ SameTriple(pm'[nextId], inflight[c].body)
             /\ Cardinality(RecordsFor(pm', inflight[c].body))
                  = Cardinality(RecordsFor(pm, inflight[c].body)) + 1
      ]_vars

\* both clients were answered "created" and their two records carry one triple
C2_Witness ==
    /\ resp["c1"].text = CreatedMsg
    /\ resp["c2"].text = CreatedMsg
    /\ resp["c1"].id # resp["c2"].id
    /\ {resp["c1"].id, resp["c2"].id} \subseteq DOMAIN pm
    /\ SameTriple(pm[resp["c1"].id], pm[resp["c2"].id])

----------------------------------------------------------------------------
(* C3: a single-record upsert whose sku_id resolves to an existing SKU,    *)
(* whose struck_price is absent or lower than price, and for whose triple  *)
(* no PriceMapping exists adds exactly one record for that triple, with    *)
(* the given price and unit_price = price / extractUnitValue(unit_value),  *)
(* and answers with the new record's id and the 'created' message.         *)

C3_Applies(body) ==
    /\ body.sku_id \in DOMAIN skus
    /\ body.struck_price = Undefined \/ Less(body.struck_price, body.price)
    /\ RecordsFor(pm, body) = {}

C3_CreatePath ==
    [][\A body \in Bodies :
          (C3_Applies(body) /\ Upsert("c1", body))
          => \E id \in DOMAIN pm' \ DOMAIN pm :
                /\ DOMAIN pm' = DOMAIN pm \cup {id}
                /\ Kept(pm, pm', {})
                /\ SameTriple(pm'[id], body)
                /\ pm'[id].price = body.price
                /\ pm'[id].unit_price =
                       Divide(body.price, extractUnitValue(skus[body.sku_id].unit_value))
                /\ resp'["c1"] = Response(200, CreatedMsg, id)
      ]_vars

----------------------------------------------------------------------------
(* C4: when exactly one PriceMapping exists for the request's triple and   *)
(* the request passes validation (the SKU is found, the struck-price check *)
(* passes and the document passes the schema's validation on save), the    *)
(* upsert changes that record in place: same id, still one record for the  *)
(* triple, the same set of records, and the response carries that id with  *)
(* the 'updated' message.                                                  *)

C4_PassesValidation(body) ==
    /\ body.sku_id \in DOMAIN skus
    /\ body.struck_price = Undefined \/ Less(body.struck_price, body.price)
    /\ Divide(body.price, extractUnitValue(skus[body.sku_id].unit_value)) # NaN

----------------------------------------------------------------------------
(* C5: a single-record upsert that carries a struck_price s and a price p  *)
(* with s >= p, for any numbers s and p, is rejected and leaves the        *)
(* PriceMapping collection as it was.                                      *)

C5_StruckPriceRejected ==
    [][\A body \in Bodies :
          (AtLeast(body.struck_price, body.price) /\ Upsert("c1", body))
          => /\ resp'["c1"].status \in {400, 500}
             /\ body.sku_id \in DOMAIN skus => resp'["c1"] = Response(400, StruckError, 0)
             /\ pm' = pm
      ]_vars

----------------------------------------------------------------------------
(* C6: a single-record upsert whose sku_id does not resolve to an existing *)
(* SKU fails with 'SKU not found', also when its struck price is not lower *)
(* than its price (the SKU check comes first), and neither the lookup nor  *)
(* a write happens: the PriceMapping collection is unchanged.              *)

C6_UnknownSku ==
    [][\A body \in Bodies :
          (body.sku_id \notin DOMAIN skus /\ Upsert("c1", body))
          => /\ resp'["c1"] = Response(400, SkuNotFound, 0)
             /\ pm' = pm
             /\ nextId' = nextId
      ]_vars

----------------------------------------------------------------------------
(* C7: when a bulk import of a sheet of N rows returns its report,         *)
(* successCount + errorCount = N, and each row that is individually        *)
(* invalid (a required field missing or falsy, struck_price >= price, or   *)
(* an sku_id, vendor_id or location_id that does not resolve) counts as    *)
(* one error while every other row counts as one success, so errorCount is *)
(* the number M of invalid rows and successCount is N - M.                 *)

InLoop == upload.pc = "rows" /\ upload.index < upload.n

C7_Invalid(row) ==
    \/ row.sku_id = "" \/ row.vendor_id = "" \/ row.location_id = ""
    \/ ~Truthy(row.price)
    \/ AtLeast(row.struck_price, row.price)
    \/ row.sku_id \notin DOMAIN skus
    \/ row.vendor_id \notin vendors
    \/ row.location_id \notin simpleLocations

C7_Accounting ==
    /\ [](\A row \in Rows :
            InLoop =>
              LET after == UploadRowResult(row).upload
              IN  IF C7_Invalid(row)
                  THEN /\ after.errorCount = upload.errorCount + 1
                       /\ after.successCount = upload.successCount
                  ELSE /\ after.errorCount = upload.errorCount
                       /\ after.successCount = upload.successCount + 1)
    /\ [](upload.pc = "rows" => upload.successCount + upload.errorCount = upload.index)
    /\ [][UploadFinish =>
             /\ resp'["c1"].successCount = upload.successCount
             /\ resp'["c1"].errorCount = upload.errorCount
             /\ resp'["c1"].successCount + resp'["c1"].errorCount = upload.n
         ]_vars

----------------------------------------------------------------------------
(* C8: the report's errors array has length min(errorCount, 10) and holds  *)
(* the errors of the first 10 failing rows in sheet order; failing rows    *)
(* after the tenth add to errorCount only; and the error of the data row   *)
(* at 0-based position i is labelled with row number i + 2.                *)

Min(a, b) == IF a < b THEN a ELSE b

C8_ErrorList ==
    /\ [](upload.pc = "rows" =>
            /\ Len(upload.errors) = upload.errorCount
            /\ \A j, k \in 1..Len(upload.errors) :
                  j < k => upload.errors[j].row < upload.errors[k].row)
    /\ [][ /\ \A row \in LongRows :
                 UploadRow(row) =>
                   IF upload'.errorCount = upload.errorCount
                   THEN upload'.errors = upload.errors
                   ELSE /\ upload'.errorCount = upload.errorCount + 1
                        /\ Len(upload'.errors) = Len(upload.errors) + 1
                        /\ SubSeq(upload'.errors, 1, Len(upload.errors)) = upload.errors
                        /\ upload'.errors[Len(upload'.errors)].row = upload.index + 2
           /\ UploadFinish =>
                 /\ resp'["c1"].errorCount = upload.errorCount
                 /\ Len(resp'["c1"].errors) = Min(upload.errorCount, 10)
                 /\ \A k \in 1..Len(resp'["c1"].errors) :
                       resp'["c1"].errors[k] = upload.errors[k]
         ]_vars

\* a report of eleven failing rows that lists the first ten, rows 2 to 11
C8_Witness ==
    /\ resp["c1"].text = ProcessedMsg
    /\ resp["c1"].errorCount = 11
    /\ Len(resp["c1"].errors) = 10
    /\ resp["c1"].errors[1].row = 2
    /\ resp["c1"].errors[10].row = 11

----------------------------------------------------------------------------
(* C9: in a bulk import a failing row never ends the loop and nothing is   *)
(* rolled back.  Whatever came before, every row advances the loop by one  *)
(* and is either applied (one success, its record stored) or recorded as   *)
(* exactly one error labelled with its own row and no change of the        *)
(* collection; a row that passes all checks is applied, a row whose lookup *)
(* or save throws is recorded as an error, the records stored by earlier   *)
(* rows stay, and the report leaves the collection as the rows made it.    *)

C9_Present(row) ==
    /\ row.sku_id # "" /\ row.vendor_id # "" /\ row.location_id # ""
    /\ Truthy(row.price)

C9_Passes(row) ==
    /\ C9_Present(row)
    /\ IsNumber(row.price)
    /\ row.struck_price = Undefined \/ Less(row.struck_price, row.price)
    /\ row.sku_id \in DOMAIN skus
    /\ row.vendor_id \in vendors
    /\ row.location_id \in simpleLocations

C9_Throws(row) ==
    /\ C9_Present(row)
    /\ ~AtLeast(row.struck_price, row.price)
    /\ \/ ~CastsToObjectId(row.sku_id)
       \/ /\ row.sku_id \in DOMAIN skus
          /\ row.vendor_id \in vendors
          /\ row.location_id \in simpleLocations
          /\ ~IsNumber(row.price)

C9_Applied(row, r) ==
    /\ r.upload.successCount = upload.successCount + 1
    /\ r.upload.errorCount = upload.errorCount
    /\ r.upload.errors = upload.errors
    /\ Kept(pm, r.pm, RecordsFor(pm, row))
    /\ \E id \in RecordsFor(r.pm, row) : r.pm[id].price = row.price

C9_Recorded(row, r) ==
    /\ r.upload.successCount = upload.successCount
    /\ r.upload.errorCount = upload.errorCount + 1
    /\ Len(r.upload.errors) = Len(upload.errors) + 1
    /\ SubSeq(r.upload.errors, 1, Len(upload.errors)) = upload.errors
    /\ r.upload.errors[Len(r.upload.errors)].row = upload.index + 2
    /\ r.pm = pm

C9_BadRowNeverAborts ==
    /\ [](\A row \in Rows :
            InLoop =>
              LET r == UploadRowResult(row)
              IN  /\ r.upload.index = upload.index + 1
                  /\ r.upload.pc = "rows"
                  /\ r.upload.n = upload.n
                  /\ C9_Applied(row, r) \/ C9_Recorded(row, r)
                  /\ C9_Passes(row) => C9_Applied(row, r)
                  /\ C9_Throws(row) => C9_Recorded(row, r))
    /\ [][UploadFinish => pm' = pm]_vars

\* a sheet of two rows: the first threw, the second was applied all the same
C9_Witness ==
    /\ upload.pc = "rows"
    /\ upload.n = 2
    /\ upload.index = 2
    /\ upload.successCount = 1
    /\ upload.errorCount = 1
    /\ upload.errors[1].row = 2
    /\ upload.errors[1].text \in {CastFailed, ValidationFailed}
    /\ Cardinality(DOMAIN pm) = 1

----------------------------------------------------------------------------
(* C10: whenever a bulk import with an uploaded file has answered, with    *)
(* its report after all rows or with the request-level error of a workbook *)
(* that could not be read or parsed, the temporary uploaded file has been  *)
(* deleted.                                                                *)

C10_UploadDeleted ==
    resp["c1"].text \in {ProcessedMsg, ProcessingError} => tmpFile = "deleted"

----------------------------------------------------------------------------
(* C11: once the workbook of a bulk import has been read and parsed, the   *)
(* request ends with the success report (message, successCount,            *)
(* errorCount, errors) whatever happens in its rows; the request-level     *)
(* error is answered only by a request whose workbook could not be read,   *)
(* which has processed no row and leaves the PriceMapping collection as it *)
(* was, so no request writes rows and then answers a request-level error.  *)

----------------------------------------------------------------------------
(* C12: on every read path that formats stored price mappings (GET         *)
(* /api/price-mappings, GET /api/external/price-mappings, GET              *)
(* /api/external/price-mappings/:id, GET /api/external/all) the location   *)
(* of a mapping is looked up in the price-location collection, then in the *)
(* full Location collection, and when neither holds it the mapping is      *)
(* still returned, with location_name 'Unknown Location': an unresolved    *)
(* location never makes the request end in an error.                       *)

C12_Resolves(doc) == doc.sku_id \in DOMAIN skus /\ doc.vendor_id \in vendors

C12_Name(doc) ==
    IF doc.location_id \in simpleLocations \/ doc.location_id \in DOMAIN locations
    THEN NameOf(doc.location_id)
    ELSE UnknownLocation

C12_Returned(r, ids) ==
    /\ r.status = 200
    /\ {r.items[k].id : k \in 1..Len(r.items)} = ids
    /\ \A k \in 1..Len(r.items) :
          r.items[k].location_name = C12_Name(pm[r.items[k].id])

C12_LocationNameNeverRaises ==
    [][ /\ ( /\ \/ GetPriceMappings("c1")
                \/ GetExternalPriceMappings("c1")
                \/ GetExternalAll("c1")
             /\ \A i \in DOMAIN pm : C12_Resolves(pm[i]) )
           => C12_Returned(resp'["c1"], DOMAIN pm)
        /\ \A id \in DOMAIN pm :
              (GetExternalPriceMapping("c1", id) /\ C12_Resolves(pm[id]))
              => C12_Returned(resp'["c1"], {id})
      ]_vars

(***************************************************************************)
(* C13: deletion of a category is guarded at all four levels.  The delete  *)
(* handler of a level refuses, and leaves the category collections as they *)
(* were, exactly when the category has a child category or a SKU is bound  *)
(* to it through its level 4 descendants (at level 4: bound to it);        *)
(* otherwise it deletes the category.  For a top-level category the        *)
(* refusal condition is sub_categories_count > 0 or skus_count > 0 as the  *)
(* category listing computes them, and the listing's can_delete is its     *)
(* negation.                                                               *)
(***************************************************************************)
\* the ancestor of level `level` of the stored node n, or NoCategory when the
\* chain of parents is broken before it
RECURSIVE C13_Ancestor(_, _)
C13_Ancestor(n, level) ==
    IF n \notin DOMAIN categories \/ categories[n].level < level THEN NoCategory
    ELSE IF categories[n].level = level THEN n
    ELSE LET p == categories[n].parent
         IN  IF p \in DOMAIN categories
                /\ categories[p].level = categories[n].level - 1
             THEN C13_Ancestor(p, level)
             ELSE NoCategory

C13_HasChild(level, id) ==
    \E n \in DOMAIN categories :
        categories[n].level = level + 1 /\ categories[n].parent = id

C13_HasSku(level, id) ==
    \E s \in DOMAIN skus :
        LET n == skus[s].category_level4_id
        IN  IF level = 4 THEN n = id
            ELSE /\ C13_Ancestor(n, 4) # NoCategory
                 /\ C13_Ancestor(n, level + 1) # NoCategory
                 /\ categories[C13_Ancestor(n, level + 1)].parent = id

C13_Stored(level, id) ==
    id \in DOMAIN categories /\ categories[id].level = level

C13_GuardedDeletion ==
    /\ [](\A level \in 1..4 : \A id \in 1..MaxNodes :
            LET r == DeleteHandler(level, categories, skus, id)
            IN  IF C13_HasChild(level, id) \/ C13_HasSku(level, id)
                THEN /\ r.resp.status = 400
                     /\ r.coll = categories
                ELSE /\ r.resp.status = 200
                     /\ DOMAIN r.coll =
                           DOMAIN categories \ {n \in {id} : C13_Stored(level, id)}
                     /\ \A n \in DOMAIN r.coll : r.coll[n] = categories[n])
    /\ [][ GetCategories("c1") =>
             /\ {resp'["c1"].items[k].id : k \in DOMAIN resp'["c1"].items}
                   = {n \in DOMAIN categories : categories[n].level = 1}
             /\ \A k \in DOMAIN resp'["c1"].items :
                  LET e == resp'["c1"].items[k]
                      refused == DeleteCategory(categories, skus, e.id).resp.status = 400
                  IN  /\ refused <=> (e.sub_categories_count > 0 \/ e.skus_count > 0)
                      /\ e.can_delete <=> ~refused
                      /\ e.skus_count =
                           Cardinality({s \in DOMAIN skus :
                              C13_Ancestor(skus[s].category_level4_id, 1) = e.id
                              /\ C13_Ancestor(skus[s].category_level4_id, 4) # NoCategory})
      ]_vars

\* a category of every level is stored, a SKU is bound to the level 4 one,
\* and a delete has just been refused because of that SKU
C13_Witness ==
    /\ resp["c1"].status = 400
    /\ resp["c1"].text = UsedByProducts
    /\ \E s \in DOMAIN skus :
          /\ C13_Stored(4, skus[s].category_level4_id)
          /\ C13_Ancestor(skus[s].category_level4_id, 1) # NoCategory

(***************************************************************************)
(* C14: after a SKU is created, and after an update of a stored SKU that   *)
(* sets buying_price or buying_vat (one of them or both), the stored       *)
(* buying_price_without_vat is, to two decimals, the stored buying_price   *)
(* divided by 1 + stored buying_vat / 100 when the stored buying_vat is    *)
(* positive, and the stored buying_price otherwise.                        *)
(***************************************************************************)
C14_Derived(doc) ==
    IF Positive(doc.buying_vat)
    THEN toFixed(NetOfVat(doc.buying_price, doc.buying_vat))
    ELSE toFixed(doc.buying_price)

C14_Sets(body) == Given(body.buying_price) \/ Given(body.buying_vat)

C14_VatInvariant ==
    [][ /\ \A body \in SkuBodies :
             (CreateSku("c1", "s3", body) /\ "s3" \in DOMAIN skus') =>
                skus'["s3"].buying_price_without_vat = C14_Derived(skus'["s3"])
        /\ \A id \in DOMAIN skus : \A body \in SkuBodies :
             (C14_Sets(body) /\ UpdateSku("c1", id, body)) =>
                skus'[id].buying_price_without_vat = C14_Derived(skus'[id])
      ]_vars

(***************************************************************************)
(* C15: for every unit_value a SKU stores, extractUnitValue returns a      *)
(* magnitude other than 0, so an upsert never divides by zero and every    *)
(* unit_price it leaves stored is a finite number.                         *)
(***************************************************************************)
C15_NeverZero ==
    [][ \A body \in UnitBodies :
           Upsert("c1", body) =>
              /\ extractUnitValue(skus[body.sku_id].unit_value) # Num(0)
              /\ \A i \in DOMAIN pm' : pm'[i].unit_price.k = "number"
      ]_vars

(***************************************************************************)
(* C16: extractUnitValue returns the value of the leftmost maximal token   *)
(* of the form digits or digits.digits of its input, whatever follows the  *)
(* token, and 1 when the input holds no digit; '2 kg' gives 2, '1.5 L'     *)
(* gives 1.5, 'kg' and '' give 1.  Applying it changes no collection: an   *)
(* upsert, which applies it to the SKU's unit_value, stores               *)
(* price / that value and leaves the catalogue as it was.                  *)
(***************************************************************************)
C16_AllDigits(str, i, j) == \A k \in i..j : str[k] \in Digits

\* str[i..j] reads digits, or digits.digits
C16_IsToken(str, i, j) ==
    /\ 1 <= i /\ i <= j /\ j <= Len(str)
    /\ \/ C16_AllDigits(str, i, j)
       \/ \E dot \in (i + 1)..(j - 1) :
             /\ str[dot] = "."
             /\ C16_AllDigits(str, i, dot - 1)
             /\ C16_AllDigits(str, dot + 1, j)

\* the value of the numeral str[i..j], digit by digit
RECURSIVE C16_Numeral(_, _, _, _)
C16_Numeral(str, i, j, acc) ==
    IF i > j THEN acc
    ELSE IF str[i] = "."
         THEN LET frac == C16_Numeral(str, i + 1, j, Num(0))
              IN  Ratio(acc.n * Pow10(j - i) + frac.n, Pow10(j - i))
         ELSE C16_Numeral(str, i + 1, j, Num(10 * acc.n + DigitVal(str[i])))

C16_Expected(str) ==
    LET tokens == {t \in (1..Len(str)) \X (1..Len(str)) :
                      C16_IsToken(str, t[1], t[2])}
    IN  IF tokens = {} THEN Num(1)
        ELSE LET first == CHOOSE t \in tokens :
                             \A u \in tokens :
                                 t[1] < u[1] \/ (t[1] = u[1] /\ t[2] >= u[2])
             IN  C16_Numeral(str, first[1], first[2], Num(0))

C16_ParserResult ==
    /\ [](\A s \in DOMAIN skus :
             extractUnitValue(skus[s].unit_value) = C16_Expected(skus[s].unit_value))
    /\ [](/\ extractUnitValue(<<"2", " ", "k", "g">>) = Num(2)
          /\ extractUnitValue(<<"1", ".", "5", " ", "L">>) = Ratio(3, 2)
          /\ extractUnitValue(<<"k", "g">>) = Num(1)
          /\ extractUnitValue(<<>>) = Num(1))
    /\ [](\A body \in UnitBodies :
             LET r == UpsertRespond(pm, nextId, body, UpsertLookup(body, skus, pm))
             IN  r.resp.status = 200 =>
                    \E i \in DOMAIN r.pm :
                       r.pm[i].unit_price =
                          Divide(body.price, C16_Expected(skus["s1"].unit_value)))
    /\ [][ (pm' # pm \/ nextId' # nextId) =>
              /\ skus' = skus
              /\ categories' = categories
              /\ catalogVars' = catalogVars
         ]_vars

\* a price of 2 has been stored for a SKU whose unit_value holds a later
\* number after its first token: the unit price is 2 / 2.5
C16_Witness ==
    /\ skus["s1"].unit_value = <<"x", "2", ".", "5", ".", "7">>
    /\ \E i \in DOMAIN pm : pm[i].price = Num(2) /\ pm[i].unit_price = Ratio(4, 5)
    /\ resp["c1"].status = 200 /\ resp["c1"].text \in {CreatedMsg, UpdatedMsg}

(***************************************************************************)
(* C17: frame of the single-record upsert.  An invocation that passes      *)
(* validation (the SKU exists, the struck price is absent or lower than    *)
(* the price, the document passes the schema) performs exactly one write,  *)
(* an insert or an update of the one record it answers with; an invocation *)
(* that fails validation performs none; and in both cases the records of   *)
(* other triples and the SKU, vendor, location and category collections    *)
(* are left as they were.                                                  *)
(***************************************************************************)
C17_Passes(body) ==
    /\ body.sku_id \in DOMAIN skus
    /\ body.struck_price = Undefined \/ Less(body.struck_price, body.price)
    /\ Divide(body.price, extractUnitValue(skus[body.sku_id].unit_value)) # NaN

\* the records of `after` that are new or differ from `before`
C17_Written(before, after) ==
    {i \in DOMAIN after : i \notin DOMAIN before \/ after[i] # before[i]}

C17_FrameOf(body, passes) ==
    LET r == UpsertRespond(pm, nextId, body, UpsertLookup(body, skus, pm))
    IN  /\ DOMAIN pm \subseteq DOMAIN r.pm
        /\ Kept(pm, r.pm, RecordsFor(pm, body))
        /\ IF passes
           THEN /\ r.resp.status = 200
                /\ r.resp.id \in RecordsFor(r.pm, body)
                /\ C17_Written(pm, r.pm) \subseteq {r.resp.id}
                /\ DOMAIN r.pm \subseteq DOMAIN pm \cup {r.resp.id}
           ELSE /\ r.resp.status \in {400, 500}
                /\ r.pm = pm
                /\ r.nextId = nextId

C17_UpsertFrame ==
    /\ [](\A body \in OptionBodies : C17_FrameOf(body, C17_Passes(body)))
    /\ [][ (\A id \in 1..MaxDocs : ~DeletePriceMapping("c1", id)) =>
              /\ catalogVars' = catalogVars
              /\ skuVars' = skuVars
              /\ upload' = upload
         ]_vars

C19_UnitPriceDerived ==
    \A i \in DOMAIN pm :
        pm[i].sku_id \in DOMAIN skus =>
            pm[i].unit_price =
                Divide(pm[i].price, extractUnitValue(skus[pm[i].sku_id].unit_value))

(***************************************************************************)
(* C20: a row of a bulk import that fails a check adds exactly one error   *)
(* and one to errorCount, and leads to no PriceMapping lookup or write.    *)
(* The error is that of the first failing check in the order: a required   *)
(* field (sku_id, vendor_id, location_id, price) missing or falsy, then    *)
(* struck_price >= price, then SKU not found, vendor not found,            *)
(* price-location not found; a not-found error names the offending id.     *)
(***************************************************************************)
\* the check a row fails first, or "none"
C20_FirstFailure(row) ==
    IF row.sku_id = "" \/ row.vendor_id = "" \/ row.location_id = ""
          \/ ~Truthy(row.price)
    THEN "missing"
    ELSE IF AtLeast(row.struck_price, row.price) THEN "struck"
    ELSE IF row.sku_id \notin DOMAIN skus THEN "sku_not_found"
    ELSE IF row.vendor_id \notin vendors THEN "vendor_not_found"
    ELSE IF row.location_id \notin simpleLocations THEN "location_not_found"
    ELSE "none"

C20_Error(row, failure) ==
    CASE failure = "missing"            -> RowError(upload.index, MissingFields, "")
      [] failure = "struck"             -> RowError(upload.index, StruckError, "")
      [] failure = "sku_not_found"      -> RowError(upload.index, SkuIdNotFound, row.sku_id)
      [] failure = "vendor_not_found"   -> RowError(upload.index, VendorNotFound, row.vendor_id)
      [] failure = "location_not_found" -> RowError(upload.index, LocationNotFound,
                                                    row.location_id)

C20_RowFails(row) ==
    LET failure == C20_FirstFailure(row)
        r == UploadRowResult(row)
    IN  (InLoop /\ failure # "none") =>
           /\ r.upload.errors = Append(upload.errors, C20_Error(row, failure))
           /\ r.upload.errorCount = upload.errorCount + 1
           /\ r.upload.successCount = upload.successCount
           /\ RowLookup(row, skus, vendors, simpleLocations, pm).outcome = failure
           /\ r.pm = pm
           /\ r.nextId = nextId

C20_InvalidRows == \A row \in Rows : C20_RowFails(row)

(***************************************************************************)
(* C21: the rows of one bulk import are applied in sheet order and each    *)
(* row's lookup sees the writes of the rows before it.  When two valid     *)
(* rows that follow each other carry the same triple and no mapping exists *)
(* for it, the first inserts a record, the second updates that same        *)
(* record, both count as successes, and the triple then has exactly one    *)
(* record, holding the later row's price, struck_price, is_discounted,     *)
(* unit_price and currency.                                                *)
(***************************************************************************)
\* a row that passes every check of the loop and the schema on save
C21_Valid(row) == ~C7_Invalid(row) /\ IsNumber(row.price)

\* the loop's state after `row` is processed in the state `at`
C21_After(at, row) ==
    RowRespond(at.upload, at.pm, at.nextId, row,
               RowLookup(row, skus, vendors, simpleLocations, at.pm))

C22_OrDefault(v, default) == IF v = Undefined THEN default ELSE v

C22_Requested(body) ==
    [price         |-> body.price,
     struck_price  |-> C22_OrDefault(body.struck_price, Null),
     is_discounted |-> C22_OrDefault(body.is_discounted, Bool(FALSE)),
     unit_price    |-> Divide(body.price,
                              extractUnitValue(skus[body.sku_id].unit_value)),
     currency      |-> C22_OrDefault(body.currency, Str("TRY"))]

C22_Overwrites(body) ==
    LET lk == UpsertLookup(body, skus, pm)
        r == UpsertRespond(pm, nextId, body, lk)
    IN  (lk.outcome = "proceed" /\ lk.existing # 0 /\ r.resp.status = 200) =>
           /\ r.resp = Response(200, UpdatedMsg, lk.existing)
           /\ SameTriple(r.pm[lk.existing], pm[lk.existing])
           /\ \A f \in ValueFields : r.pm[lk.existing][f] = C22_Requested(body)[f]

C22_UpdateOverwrites == \A body \in OptionBodies : C22_Overwrites(body)

(***************************************************************************)
(* C23: last write wins on an existing mapping.  When single-record        *)
(* upserts of a triple that has a mapping are interleaved, the save of a   *)
(* request whose lookup found the mapping creates no second record, and    *)
(* leaves the record with the price, struck_price, is_discounted,          *)
(* unit_price and currency of that one request: after the last save the    *)
(* record is never a mixture of fields of two requests.                    *)
(***************************************************************************)
C23_LastWriteWins ==
    [][\A c \in {"c1", "c2"} :
          ( /\ inflight[c].active
            /\ inflight[c].lk.existing # 0
            /\ UpsertEnd(c)
            /\ resp'[c].status = 200 )
          => LET id == inflight[c].lk.existing
                 body == inflight[c].body
             IN  /\ DOMAIN pm' = DOMAIN pm
                 /\ resp'[c] = Response(200, UpdatedMsg, id)
                 /\ \A f \in ValueFields :
                       pm'[id][f] = NewValues(body, inflight[c].lk.unitPrice)[f]
      ]_vars

(***************************************************************************)
(* C24: the single-record upsert does not check that the vendor or the     *)
(* price-location exists, the bulk import does.  For a request with a SKU  *)
(* on record, a valid struck_price and a vendor_id or location_id that     *)
(* matches no Vendor / price-location record, the single-record handler    *)
(* answers 200 and stores a mapping carrying those ids, while the row loop *)
(* given the same values records a not-found error naming the id and       *)
(* leaves the PriceMapping collection unchanged.                           *)
(***************************************************************************)
C24_Dangling(body) ==
    /\ body.sku_id \in DOMAIN skus
    /\ ~StruckPriceTooHigh(body.struck_price, body.price)
    /\ body.vendor_id \notin vendors \/ body.location_id \notin simpleLocations

C24_RowRejected(row) ==
    LET r == UploadRowResult(row)
        err == r.upload.errors[Len(r.upload.errors)]
    IN  /\ r.pm = pm
        /\ r.nextId = nextId
        /\ r.upload.errorCount = upload.errorCount + 1
        /\ r.upload.successCount = upload.successCount
        /\ Len(r.upload.errors) = Len(upload.errors) + 1
        /\ IF row.vendor_id \notin vendors
           THEN err.text = VendorNotFound /\ err.id = row.vendor_id
           ELSE err.text = LocationNotFound /\ err.id = row.location_id

C24_Stored(body) ==
    LET r == UpsertRespond(pm, nextId, body, UpsertLookup(body, skus, pm))
    IN  /\ r.resp.status = 200
        /\ r.resp.text \in {CreatedMsg, UpdatedMsg}
        /\ r.resp.id \in DOMAIN r.pm
        /\ SameTriple(r.pm[r.resp.id], body)

C24_ExistenceChecks ==
    /\ [](\A body \in ReferenceBodies :
             C24_Dangling(body) => C24_Stored(body) /\ C24_RowRejected(body))
    /\ [][\A c \in Clients : resp'[c].text \in {CreatedMsg, UpdatedMsg} =>
             \/ resp'[c] = resp[c]
             \/ \E body \in ReferenceBodies :
                   resp'[c] = UpsertRespond(pm, nextId, body,
                                           UpsertLookup(body, skus, pm)).resp]_vars
    /\ [][upload.pc = "rows" /\ upload'.index = upload.index + 1 =>
             \E row \in ReferenceBodies :
                 /\ upload' = UploadRowResult(row).upload
                 /\ pm' = UploadRowResult(row).pm]_vars

C24_Witness ==
    /\ resp["c1"].text = ProcessedMsg
    /\ resp["c1"].errorCount = 1
    /\ resp["c1"].errors[1].text = VendorNotFound
    /\ \E i \in DOMAIN pm : pm[i].vendor_id = "v9" /\ pm[i].vendor_id \notin vendors

C26_ReferentialIntegrity ==
    \A i \in DOMAIN pm :
        /\ pm[i].sku_id \in DOMAIN skus
        /\ pm[i].vendor_id \in vendors
        /\ pm[i].location_id \in simpleLocations

(***************************************************************************)
(* C27: can_delete agrees with the delete endpoint.  For every node that a *)
(* listing returns (GET /api/categories, /api/sub-categories,              *)
(* /api/category-level3, /api/category-level4), can_delete is true exactly *)
(* when a delete request for that node made right after the listing is     *)
(* answered 200 and removes the node.                                      *)
(***************************************************************************)
C27_Entry(coll, skuColl, id) ==
    IF coll[id].level = 1 THEN CategoryEntry(coll, skuColl, id)
    ELSE LevelEntry(coll[id].level, coll, skuColl, id)

C27_Agrees(e) ==
    LET r == DeleteHandler(categories[e.id].level, categories, skus, e.id)
    IN  /\ e.can_delete <=> (r.resp.status = 200 /\ e.id \notin DOMAIN r.coll)
        /\ ~e.can_delete => (r.resp.status = 400 /\ r.coll = categories)

C27_CanDeleteAgrees ==
    /\ [](\A id \in DOMAIN categories : C27_Agrees(C27_Entry(categories, skus, id)))
    /\ [][(resp'["c1"] # resp["c1"] /\ resp'["c1"].items # <<>>) =>
             \A k \in DOMAIN resp'["c1"].items :
                 LET e == resp'["c1"].items[k]
                 IN  e.id \in DOMAIN categories' /\ e = C27_Entry(categories', skus', e.id)]_vars

C27_Witness ==
    /\ resp["c1"].status = 200
    /\ Len(resp["c1"].items) = 2
    /\ \A k \in 1..2 : /\ resp["c1"].items[k].id \in DOMAIN categories
                        /\ categories[resp["c1"].items[k].id].level = 2
    /\ resp["c1"].items[1].can_delete
    /\ ~resp["c1"].items[2].can_delete
    /\ resp["c1"].items[2].children_count = 1

(***************************************************************************)
(* C28: the category tree has no orphans under serial use.  In every state *)
(* reached by serially executed create and delete requests on the four     *)
(* levels, the parent reference of every node of levels 2 to 4 names a     *)
(* node of the level above that exists.                                    *)
(***************************************************************************)
C28_NoOrphans ==
    \A n \in DOMAIN categories :
        categories[n].level > 1 =>
            /\ categories[n].parent \in DOMAIN categories
            /\ categories[categories[n].parent].level = categories[n].level - 1

(***************************************************************************)
(* C29: the delete guard under interleaving.  When a category delete is    *)
(* interleaved with a request that creates a child under the category or   *)
(* binds a SKU to it, the delete never completes while a child or a SKU    *)
(* made by the other request references the category: right after a        *)
(* completed delete no node names the deleted node as its parent and no    *)
(* SKU is bound to it.                                                     *)
(***************************************************************************)
C29_GuardHolds ==
    [][(DeleteCategoryEnd /\ deleting.id \in DOMAIN categories
          /\ categories[deleting.id].level = deleting.level) =>
         /\ Children(categories', deleting.level + 1, {deleting.id}) = {}
         /\ deleting.level = 4 => SkusCount(skus', {deleting.id}) = 0]_vars

(***************************************************************************)
(* C30: the location-domains migration.  Run on any collection of          *)
(* locations, migrateProductionLocations (a) changes nothing when no       *)
(* location has a missing or empty domains array, (b) otherwise leaves     *)
(* every location with a non-empty domains array, (c) never changes the    *)
(* domains of a location whose domains were non-empty before the run and   *)
(* whose size matches none of Maxi, GB, Büyük, and (d) is idempotent: a    *)
(* second run right after the first changes nothing.  It touches no field  *)
(* but domains and adds or removes no document.                            *)
(***************************************************************************)
C30_Run(before, after) ==
    /\ DOMAIN after = DOMAIN before
    /\ \A id \in DOMAIN before :
          /\ after[id].demography = before[id].demography
          /\ after[id].size = before[id].size
          /\ (~EmptyDomains(before[id]) /\ ~LargeSize(before[id].size))
                => after[id] = before[id]
    /\ (\A id \in DOMAIN before : ~EmptyDomains(before[id])) => after = before
    /\ (\E id \in DOMAIN before : EmptyDomains(before[id]))
          => \A id \in DOMAIN after : ~EmptyDomains(after[id])
    /\ migrateProductionLocations(after) = after

C30_Migration ==
    /\ [](C30_Run(locations, migrateProductionLocations(locations)))
    /\ [][Migrate("c1") => C30_Run(locations, locations')]_vars

C30_Witness ==
    /\ resp["c1"].text = Completed
    /\ resp["c1"].count = 1
    /\ DOMAIN locations = {"l5", "l6"}
    /\ locations["l5"].domains = GetirBoth
    /\ locations["l5"].demography = "Traditional"
    /\ locations["l5"].size = <<"1", "G", "B">>
    /\ locations["l6"].domains = <<"Getir Yemek">>

============================================================================
